---- MODULE Spec2Model ----
(***************************************************************************)
(* A model of DFRot's utils/model_utils.py and utils/rotation_utils.py:    *)
(* the model loaders, replace_modules, capture_layer_io, layer-norm        *)
(* fusion, the offline rotation of a model, the registration of online     *)
(* rotations and of the query/key wrapper, and the wrapper's forward.      *)
(*                                                                         *)
(* Each part of the program has its own variables and its own              *)
(* specification (SpecLoad, SpecOrth, ...); under one specification the    *)
(* variables of the other parts stay parked at a fixed value.              *)
(***************************************************************************)
EXTENDS Integers, Sequences, FiniteSets, TLC

VARIABLES
    \* ---- get_model and the per-family loaders (model_utils.py:57-113)
    lpc,            \* position inside get_model / get_<family>
    lname,          \* model_name of the current (or last) get_model call
    lfamily,        \* the loader get_model dispatched to ("" before any)
    loaderCalls,    \* loaders entered by the current (or last) call, in order
    initDisabled,   \* torch.nn.init routines replaced by skip (process wide)
    initAtCall,     \* initDisabled when the current (or last) call started
    lmodel,         \* the model object the loader is building
    lresult,        \* what the last call returned or raised
    lcalls          \* number of get_model calls made so far

VARIABLES
    \* ---- get_orthogonal_matrix (rotation_utils.py:124-140)
    opc,            \* "idle", or "called" between the call and its branch
    oargs,          \* size, mode and the `indices` keyword of the call
    oresult         \* what the last call returned or raised

VARIABLES
    \* ---- register_online_rotation and
    \*      add_qk_rotation_wrapper_after_function_call_in_forward
    \*      (rotation_utils.py:272-284, 337-348), per module
    mQ,             \* the buffer Q of each module: [has, val]
    preHooks,       \* each module's forward pre-hooks, in registration order
    rotHandle,      \* module.rotate_handle: the hook it removes, 0 if unset
    wrapAttrs,      \* function names f with attribute f_qk_rotation_wrapper
    fwdWrappers,    \* wrappers patched into each module's forward, in order
    seen,           \* last module call: whether the module had Q then, the
                    \* input given and the input its own forward received
    icall,          \* the last registration call and how it ended
    icalls,         \* number of registration calls made so far
    firstQ          \* the Q of each module's first register_online_rotation

VARIABLES
    \* ---- QKRotationWrapper (rotation_utils.py:287-334)
    qpc,            \* position inside __init__ / forward
    qwrap,          \* the wrapper's fields as __init__ set them
    qin,            \* the query the wrapped function returned
    kin,            \* the key the wrapped function returned
    qcur,           \* forward's local q
    kcur,           \* forward's local k
    qkret,          \* what the last forward returned: [ok, q, k]
    quantCalls,     \* calls of the quantizer made by the current (or last)
                    \* forward: find_params, quantize, free
    qkerr,          \* how the last constructor or forward call failed
    qcalls          \* forward calls made so far

VARIABLES
    \* ---- capture_layer_io (model_utils.py:219-273), on one layer
    cpc,            \* position inside capture_layer_io
    chooks,         \* forward hooks attached to the layer's sublayers
    captured,       \* per call: the captured_inputs / captured_outputs lists
    chandles,       \* handles of the current call
    cN,             \* layer_input.shape[0] of the current (or last) call
    cseq,           \* seq_idx of the replay loop
    cret,           \* what the last call returned or raised
    ccalls,         \* calls made so far; the current call's number
    cfailed         \* the calls that raised after attaching their hooks

VARIABLES
    \* ---- replace_modules (model_utils.py:188-212)
    tparent,        \* the hierarchy: each module's parent (0 is root)
    tmatch,         \* isinstance(module, type_to_replace), per module
    tname,          \* each module's attribute name in its parent
    replace_layers, \* the replace_layers argument
    factory_none,   \* whether new_module_factory returns None
    tslot,          \* what each attribute of the hierarchy now holds
    tstack,         \* the active replace_modules calls: root and the children
                    \* its loop has still to take
    tvisited,       \* the modules some loop has taken
    fcalls,         \* the calls of new_module_factory, in order
    tpc             \* "run", "done" or "ValueError"

VARIABLES
    \* ---- fuse_layer_norms, rotate_model (rotation_utils.py:22-92, 143-284)
    rpc,        \* "idle", "loaded", the step rotate_model is at, "rotated"
    rmodel,     \* the model: its weights, norm scales and online rotations
    rprefuse,   \* the model as it was when fuse_layer_norms was called
    rorig,      \* the model as it was when rotate_model was called
    rQ,         \* the Q handed to rotate_model
    rlayer,     \* the layer rotate_model's loop is at
    rfused,     \* fuse_layer_norms has run
    rtrace,     \* the steps rotate_model has entered, in order
    rerror      \* what rotate_model raised, if it did

VARIABLES
    \* ---- get_layer_io_save_path (model_utils.py:215-216)
    pathCalled,     \* get_layer_io_save_path has been called
    pathArgs,       \* the args of the last call
    pathResult      \* what the last call returned

loadVars == <<lpc, lname, lfamily, loaderCalls, initDisabled, initAtCall,
              lmodel, lresult, lcalls>>

orthVars == <<opc, oargs, oresult>>

instrVars == <<mQ, preHooks, rotHandle, wrapAttrs, fwdWrappers, seen, icall,
               icalls, firstQ>>

qkVars == <<qpc, qwrap, qin, kin, qcur, kcur, qkret, quantCalls, qkerr, qcalls>>

capVars == <<cpc, chooks, captured, chandles, cN, cseq, cret, ccalls, cfailed>>

replVars == <<tparent, tmatch, tname, replace_layers, factory_none, tslot, tstack, tvisited,
              fcalls, tpc>>

pathVars == <<pathCalled, pathArgs, pathResult>>

rotVars == <<rpc, rmodel, rprefuse, rorig, rQ, rlayer, rfused, rtrace, rerror>>

vars == <<loadVars, orthVars, instrVars, qkVars, capVars, replVars, rotVars,
          pathVars>>

\* What each part leaves alone: the variables of the other parts.
notLoad == <<orthVars, instrVars, qkVars, capVars, replVars, rotVars,
    pathVars>>
notOrth == <<loadVars, instrVars, qkVars, capVars, replVars, rotVars,
    pathVars>>
notInstr == <<loadVars, orthVars, qkVars, capVars, replVars, rotVars,
    pathVars>>
notQK == <<loadVars, orthVars, instrVars, capVars, replVars, rotVars,
    pathVars>>
notCap == <<loadVars, orthVars, instrVars, qkVars, replVars, rotVars,
    pathVars>>
notRepl == <<loadVars, orthVars, instrVars, qkVars, capVars, rotVars,
    pathVars>>
notRot == <<loadVars, orthVars, instrVars, qkVars, capVars, replVars,
    pathVars>>
notPath == <<loadVars, orthVars, instrVars, qkVars, capVars, replVars,
    rotVars>>

----------------------------------------------------------------------------
(* Sequence helpers.                                                       *)

RECURSIVE Flatten(_)
Flatten(ss) == IF ss = <<>> THEN <<>> ELSE Head(ss) \o Flatten(Tail(ss))

SeqsUpTo(S, n) == UNION {[1..k -> S] : k \in 0..n}

\* Python's `sub in s` on strings, the strings being sequences of characters.
Contains(s, sub) ==
    \E i \in 1..(Len(s) - Len(sub) + 1) : SubSeq(s, i, i + Len(sub) - 1) = sub

----------------------------------------------------------------------------
(* Integer matrices, as sequences of rows.                                 *)

Rows(M) == Len(M)
Cols(M) == IF M = <<>> THEN 0 ELSE Len(M[1])

RECURSIVE SumTo(_, _)
SumTo(f, n) == IF n = 0 THEN 0 ELSE f[n] + SumTo(f, n - 1)

Dot(u, v) == SumTo([i \in 1..Len(u) |-> u[i] * v[i]], Len(u))

\* M.T
MT(M) == [j \in 1..Cols(M) |-> [i \in 1..Rows(M) |-> M[i][j]]]

\* torch.matmul(A, B)
MMul(A, B) ==
    [i \in 1..Rows(A) |-> [j \in 1..Cols(B) |->
        Dot(A[i], [k \in 1..Rows(B) |-> B[k][j]])]]

\* torch.nn.functional.linear(x, A) for one row x: x @ A.T
FLinear(x, A) == [i \in 1..Rows(A) |-> Dot(x, A[i])]

----------------------------------------------------------------------------
(* get_model and the loaders.                                              *)

\* Bounds of the load model.
MaxParts == 2      \* a model name is made of at most MaxParts fragments
MaxLoads == 2      \* get_model calls in one run

\* str.lower() on the characters the names use.
LowerChar(c) ==
    CASE c = "L" -> "l" [] c = "A" -> "a" [] c = "M" -> "m" [] c = "I" -> "i"
      [] c = "S" -> "s" [] c = "T" -> "t" [] c = "R" -> "r" [] c = "Q" -> "q"
      [] c = "W" -> "w" [] c = "E" -> "e" [] c = "N" -> "n"
      [] OTHER -> c

Lower(s) == [i \in 1..Len(s) |-> LowerChar(s[i])]

\* Fragments model names are put together from; a family word may also come
\* about across the border of two fragments ("Qw" + "en").
NameParts ==
    { <<"L","l","a","m","a">>, <<"M","I","S","T","R","A","L">>,
      <<"q","w","e","n">>, <<"Q","w">>, <<"E","N","2">>,
      <<"g","p","t">>, <<"l","l","a">>, <<"m","a","-">> }

ModelNames == { Flatten(ps) : ps \in SeqsUpTo(NameParts, MaxParts) }

llama   == <<"l","l","a","m","a">>
mistral == <<"m","i","s","t","r","a","l">>
qwen    == <<"q","w","e","n">>

InitRoutines == {"kaiming_uniform_", "uniform_", "normal_"}

SEQLEN == 2048

NoModel == [family |-> "", seqlen |-> 0, tie |-> FALSE, shared |-> FALSE]
NoResult == [kind |-> "none", model |-> NoModel]

\* get_model's dispatch without the lower-casing: what a missing .lower()
\* would do.
get_model_dispatch_raw(model_name) ==
    IF Contains(model_name, llama) THEN "llama"
    ELSE IF Contains(model_name, mistral) THEN "mistral"
    ELSE IF Contains(model_name, qwen) THEN "qwen"
    ELSE "ValueError"

\* The if/elif chain of get_model: the loader it calls, or ValueError.
get_model_dispatch(model_name) ==
    IF Contains(Lower(model_name), llama) THEN "llama"
    ELSE IF Contains(Lower(model_name), mistral) THEN "mistral"
    ELSE IF Contains(Lower(model_name), qwen) THEN "qwen"
    ELSE "ValueError"

InitLoad ==
    /\ lpc = "idle"
    /\ lname = <<>>
    /\ lfamily = ""
    /\ loaderCalls = <<>>
    /\ initDisabled = {}
    /\ initAtCall = {}
    /\ lmodel = NoModel
    /\ lresult = NoResult
    /\ lcalls = 0

\* get_model(model_name): dispatch on the name, or raise ValueError.
get_model ==
    /\ UNCHANGED notLoad
    /\ lpc = "idle"
    /\ lcalls < MaxLoads
    /\ \E model_name \in ModelNames :
        /\ lname' = model_name
        /\ LET d == get_model_dispatch(model_name) IN
           IF d = "ValueError"
           THEN /\ lresult' = [kind |-> "UnsupportedModel", model |-> NoModel]
                /\ lfamily' = ""
                /\ lpc' = "idle"
           ELSE /\ lresult' = NoResult
                /\ lfamily' = d
                /\ lpc' = "loader"
    /\ lcalls' = lcalls + 1
    /\ loaderCalls' = <<>>
    /\ initAtCall' = initDisabled
    /\ lmodel' = NoModel
    /\ UNCHANGED initDisabled

\* get_llama / get_mistral / get_qwen, first three statements: the three
\* initializers are replaced by skip.
loader_disable_init ==
    /\ UNCHANGED notLoad
    /\ lpc = "loader"
    /\ loaderCalls' = Append(loaderCalls, lfamily)
    /\ initDisabled' = initDisabled \cup InitRoutines
    /\ lpc' = "from_pretrained"
    /\ UNCHANGED <<lname, lfamily, initAtCall, lmodel, lresult, lcalls>>

\* <Family>ForCausalLM.from_pretrained: the library either returns a model,
\* whose head shares the embedding's weight when the configuration ties
\* them, or raises.
loader_from_pretrained ==
    /\ UNCHANGED notLoad
    /\ lpc = "from_pretrained"
    /\ \/ \E tie \in BOOLEAN :
            /\ lmodel' = [family |-> lfamily, seqlen |-> 0,
                          tie |-> tie, shared |-> tie]
            /\ lpc' = "seqlen"
            /\ UNCHANGED lresult
       \/ /\ lresult' = [kind |-> "LoadError", model |-> NoModel]
          /\ lpc' = "idle"
          /\ UNCHANGED lmodel
    /\ UNCHANGED <<lname, lfamily, loaderCalls, initDisabled, initAtCall, lcalls>>

\* model.seqlen = 2048 (and the log line).
loader_set_seqlen ==
    /\ UNCHANGED notLoad
    /\ lpc = "seqlen"
    /\ lmodel' = [lmodel EXCEPT !.seqlen = SEQLEN]
    /\ lpc' = IF lfamily = "qwen" THEN "untie" ELSE "return"
    /\ UNCHANGED <<lname, lfamily, loaderCalls, initDisabled, initAtCall,
                   lresult, lcalls>>

\* get_qwen only: with tie_word_embeddings the head gets a fresh parameter
\* holding a clone of the embedding.
qwen_untie ==
    /\ UNCHANGED notLoad
    /\ lpc = "untie"
    /\ lmodel' = IF lmodel.tie THEN [lmodel EXCEPT !.shared = FALSE] ELSE lmodel
    /\ lpc' = "return"
    /\ UNCHANGED <<lname, lfamily, loaderCalls, initDisabled, initAtCall,
                   lresult, lcalls>>

\* return model
loader_return ==
    /\ UNCHANGED notLoad
    /\ lpc = "return"
    /\ lresult' = [kind |-> "model", model |-> lmodel]
    /\ lpc' = "idle"
    /\ UNCHANGED <<lname, lfamily, loaderCalls, initDisabled, initAtCall,
                   lmodel, lcalls>>

NextLoad ==
    \/ get_model
    \/ loader_disable_init
    \/ loader_from_pretrained
    \/ loader_set_seqlen
    \/ qwen_untie
    \/ loader_return

----------------------------------------------------------------------------
(* get_orthogonal_matrix.                                                  *)

\* Bounds of the get_orthogonal_matrix model.
MaxOrthSize == 3   \* sizes 1..MaxOrthSize
MaxIndices == 2    \* length of an `indices` list
NumDraws == 2      \* outcomes told apart of one random draw

OrthModes == {"random", "hadamard", "householder", "hadamard_householder",
              "orthogonal_procrustes", "unknown", "Hadamard", ""}

\* A Python object as the `indices` keyword carries it: absent (None), a
\* list of channel indices, a matrix, or a tuple of indices (not a list).
Obj(tag, list, mat) == [tag |-> tag, list |-> list, mat |-> mat]
Absent == Obj("None", <<>>, <<>>)

SuppliedMatrices ==
    { <<<<1>>>>, <<<<0, 1>>, <<-1, 0>>>>, <<<<1, 2>>, <<3, 4>>>> }

IndicesValues(size) ==
    {Absent}
      \cup { Obj("list", l, <<>>) : l \in SeqsUpTo(0..(size - 1), MaxIndices) }
      \cup { Obj("tuple", <<0>>, <<>>) }
      \cup { Obj("matrix", <<>>, m) : m \in SuppliedMatrices }

\* The matrices the generators build are carried by what built them: the
\* generator, the size and the random draws that went into it.
Generated(by, size, draws) ==
    [tag |-> by, list |-> <<size>> \o draws, mat |-> <<>>]

Returned(v) == [kind |-> "returned", value |-> v]
Raised(e) == [kind |-> e, value |-> Absent]

\* random_householder_matrix without its assert.
random_householder_matrix_unchecked(size, indices, signs) ==
    Returned(Generated("random_householder_matrix", size,
                       Flatten([i \in 1..Len(indices.list) |->
                                   <<indices.list[i], signs[i]>>])))

\* random_householder_matrix(size, device, indices): the assert, then one
\* reflection per index, each with its own random signs.
random_householder_matrix(size, indices, signs) ==
    IF indices.tag # "list"
    THEN Raised("MissingData")
    ELSE Returned(Generated("random_householder_matrix", size,
                            Flatten([i \in 1..Len(indices.list) |->
                                        <<indices.list[i], signs[i]>>])))

\* The orthogonal_procrustes branch: the assert, then the keyword itself.
orthogonal_procrustes(indices) ==
    IF indices = Absent THEN Raised("MissingData") ELSE Returned(indices)

InitOrth ==
    /\ opc = "idle"
    /\ oargs = [size |-> 1, mode |-> "", indices |-> Absent]
    /\ oresult = [kind |-> "none", value |-> Absent]

\* get_orthogonal_matrix(size, mode, device, **kwargs) is called.
orth_call ==
    /\ UNCHANGED notOrth
    /\ opc = "idle"
    /\ \E size \in 1..MaxOrthSize, mode \in OrthModes :
         \E indices \in IndicesValues(size) :
            oargs' = [size |-> size, mode |-> mode, indices |-> indices]
    /\ opc' = "called"
    /\ oresult' = [kind |-> "none", value |-> Absent]

\* mode == 'random': random_orthogonal_matrix(size, device)
orth_random ==
    /\ UNCHANGED notOrth
    /\ opc = "called" /\ oargs.mode = "random"
    /\ \E d \in 1..NumDraws :
         oresult' = Returned(Generated("random_orthogonal_matrix",
                                       oargs.size, <<d>>))
    /\ opc' = "idle"
    /\ UNCHANGED oargs

\* mode == 'hadamard': random_hadamard_matrix(size, device)
orth_hadamard ==
    /\ UNCHANGED notOrth
    /\ opc = "called" /\ oargs.mode = "hadamard"
    /\ \E d \in 1..NumDraws :
         oresult' = Returned(Generated("random_hadamard_matrix",
                                       oargs.size, <<d>>))
    /\ opc' = "idle"
    /\ UNCHANGED oargs

\* mode == "householder"
orth_householder ==
    /\ UNCHANGED notOrth
    /\ opc = "called" /\ oargs.mode = "householder"
    /\ \E signs \in [1..MaxIndices -> 1..NumDraws] :
         oresult' = random_householder_matrix(oargs.size, oargs.indices, signs)
    /\ opc' = "idle"
    /\ UNCHANGED oargs

\* mode == 'hadamard_householder': a random Hadamard matrix times the
\* reflection at random.randint(0, size - 1).
orth_hadamard_householder ==
    /\ UNCHANGED notOrth
    /\ opc = "called" /\ oargs.mode = "hadamard_householder"
    /\ \E d \in 1..NumDraws, idx \in 0..(oargs.size - 1) :
         oresult' = Returned(Generated("hadamard_householder",
                                       oargs.size, <<d, idx>>))
    /\ opc' = "idle"
    /\ UNCHANGED oargs

\* mode == 'orthogonal_procrustes'
orth_procrustes ==
    /\ UNCHANGED notOrth
    /\ opc = "called" /\ oargs.mode = "orthogonal_procrustes"
    /\ oresult' = orthogonal_procrustes(oargs.indices)
    /\ opc' = "idle"
    /\ UNCHANGED oargs

\* else: raise ValueError
orth_unknown ==
    /\ UNCHANGED notOrth
    /\ opc = "called"
    /\ oargs.mode \notin {"random", "hadamard", "householder",
                          "hadamard_householder", "orthogonal_procrustes"}
    /\ oresult' = Raised("InvalidConfiguration")
    /\ opc' = "idle"
    /\ UNCHANGED oargs

NextOrth ==
    \/ orth_call
    \/ orth_random
    \/ orth_hadamard
    \/ orth_householder
    \/ orth_hadamard_householder
    \/ orth_procrustes
    \/ orth_unknown

----------------------------------------------------------------------------
(* QKRotationWrapper.__init__                                              *)

\* hadamard_utils.is_pow2
is_pow2(n) == n \in {1, 2, 4, 8, 16}

NoWrapper == [ok |-> FALSE, head_dim |-> 0, hidden_size |-> 0, k_bits |-> 0,
              k_groupsize |-> 0, disable_qk_rotation |-> FALSE,
              quantizer_groupsize |-> 0]

\* QKRotationWrapper(func, config, **kwargs): the two asserts, then the
\* fields; the quantizer is configured with groupsize -1 whatever
\* k_groupsize is. ok is FALSE when an assert fails.
QKRotationWrapper_init(cfg) ==
    LET head_dim == cfg.hidden_size \div cfg.num_attention_heads IN
    IF ~is_pow2(head_dim) THEN NoWrapper
    ELSE IF cfg.k_groupsize \notin {-1, head_dim} THEN NoWrapper
    ELSE [ok |-> TRUE, head_dim |-> head_dim, hidden_size |-> cfg.hidden_size,
          k_bits |-> cfg.k_bits, k_groupsize |-> cfg.k_groupsize,
          disable_qk_rotation |-> cfg.disable_qk_rotation,
          quantizer_groupsize |-> -1]

WrapperConfig(hs, nh, bits, gs, dis) ==
    [hidden_size |-> hs, num_attention_heads |-> nh, k_bits |-> bits,
     k_groupsize |-> gs, disable_qk_rotation |-> dis]

----------------------------------------------------------------------------
(* register_online_rotation, online_rotate and                             *)
(* add_qk_rotation_wrapper_after_function_call_in_forward.                 *)

\* Bounds of the registration model.
NumModules == 2      \* modules the calls are made on
MaxInstrCalls == 3   \* registration calls in one run

Modules == 1..NumModules

\* Rotations handed to register_online_rotation: not all symmetric, so that
\* Q and Q.T differ.
OnlineQs == { <<<<0, 1>>, <<-1, 0>>>>, <<<<0, -1>>, <<1, 0>>>>,
              <<<<0, 1>>, <<1, 0>>>> }

InstrInputs == { <<1, 2>>, <<3, -1>> }

\* Functions called directly in a module's forward.
FunctionNames == {"apply_rotary_pos_emb", "repeat_kv"}

InstrConfigs ==
    { WrapperConfig(8, 2, 4, 4, FALSE), WrapperConfig(8, 2, 16, -1, TRUE),
      WrapperConfig(6, 2, 4, -1, FALSE) }

NoQ == [has |-> FALSE, val |-> <<>>]
\* A call record: configured tells whether the module had a Q (a wrapper)
\* when the call was made, same whether it had a wrapper for that function.
NoCall == [op |-> "none", module |-> 0, function_name |-> "",
           configured |-> FALSE, same |-> FALSE, outcome |-> "none"]

InitInstr ==
    /\ mQ = [m \in Modules |-> NoQ]
    /\ preHooks = [m \in Modules |-> <<>>]
    /\ rotHandle = [m \in Modules |-> 0]
    /\ wrapAttrs = [m \in Modules |-> {}]
    /\ fwdWrappers = [m \in Modules |-> <<>>]
    /\ seen = [module |-> 0, registered |-> FALSE, given |-> <<>>,
               received |-> <<>>]
    /\ icall = NoCall
    /\ icalls = 0
    /\ firstQ = [m \in Modules |-> <<>>]

\* online_rotate(module, inp): F.linear(inp[0], module.Q)
online_rotate(m, x) == FLinear(x, mQ[m].val)

RECURSIVE RunPreHooks(_, _, _)
RunPreHooks(m, hooks, x) ==
    IF hooks = <<>> THEN x
    ELSE RunPreHooks(m, Tail(hooks),
                     IF Head(hooks) = "online_rotate" THEN online_rotate(m, x)
                     ELSE x)

\* register_online_rotation with the assert left out.
register_store_unguarded(m, Q, had) ==
    /\ mQ' = [mQ EXCEPT ![m] = [has |-> TRUE, val |-> MT(Q)]]
    /\ preHooks' = [preHooks EXCEPT ![m] = Append(@, "online_rotate")]
    /\ rotHandle' = [rotHandle EXCEPT ![m] = Len(preHooks[m]) + 1]
    /\ icall' = [op |-> "register_online_rotation", module |-> m,
                 function_name |-> "", configured |-> had, same |-> FALSE,
                 outcome |-> "ok"]

\* The body of register_online_rotation(module, Q): the assert on
\* hasattr(module, 'Q'), then the buffer Q.T and the pre-hook.
register_store(m, Q, had) ==
    IF had
    THEN /\ icall' = [op |-> "register_online_rotation", module |-> m,
                      function_name |-> "", configured |-> had,
                      same |-> FALSE, outcome |-> "AlreadyConfigured"]
         /\ UNCHANGED <<mQ, preHooks, rotHandle>>
    ELSE /\ mQ' = [mQ EXCEPT ![m] = [has |-> TRUE, val |-> MT(Q)]]
         /\ preHooks' = [preHooks EXCEPT ![m] = Append(@, "online_rotate")]
         /\ rotHandle' = [rotHandle EXCEPT ![m] = Len(preHooks[m]) + 1]
         /\ icall' = [op |-> "register_online_rotation", module |-> m,
                      function_name |-> "", configured |-> had,
                      same |-> FALSE, outcome |-> "ok"]

register_online_rotation ==
    /\ UNCHANGED notInstr
    /\ icalls < MaxInstrCalls
    /\ \E m \in Modules, Q \in OnlineQs :
         /\ register_store(m, Q, mQ[m].has)
         /\ firstQ' = IF firstQ[m] = <<>> THEN [firstQ EXCEPT ![m] = Q]
                       ELSE firstQ
    /\ icalls' = icalls + 1
    /\ UNCHANGED <<wrapAttrs, fwdWrappers, seen>>

\* The module is called: its pre-hooks run on the input, in order.
module_forward ==
    /\ UNCHANGED notInstr
    /\ \E m \in Modules, x \in InstrInputs :
         seen' = [module |-> m, registered |-> mQ[m].has, given |-> x,
                  received |-> RunPreHooks(m, preHooks[m], x)]
    /\ UNCHANGED <<mQ, preHooks, rotHandle, wrapAttrs, fwdWrappers, icall,
                   icalls, firstQ>>

\* The existence check left out.
no_wrapper_attr_check(m, function_name) == FALSE

\* hasattr(module, f"{function_name}_qk_rotation_wrapper")
has_wrapper_attr(m, function_name) == function_name \in wrapAttrs[m]

\* add_qk_rotation_wrapper_after_function_call_in_forward(module,
\* function_name, **kwargs): the assert, then the wrapper is built and
\* patched into forward, then recorded under the attribute.
add_qk_rotation_wrapper_after_function_call_in_forward ==
    /\ UNCHANGED notInstr
    /\ icalls < MaxInstrCalls
    /\ \E m \in Modules, fn \in FunctionNames, cfg \in InstrConfigs :
         LET had == fwdWrappers[m] # <<>>
             w == QKRotationWrapper_init(cfg)
             rec(out) == [op |-> "add_qk_rotation_wrapper", module |-> m,
                          function_name |-> fn, configured |-> had,
                          same |-> \E i \in 1..Len(fwdWrappers[m]) :
                                     fwdWrappers[m][i].function_name = fn,
                          outcome |-> out]
         IN  IF has_wrapper_attr(m, fn)
             THEN /\ icall' = rec("AlreadyConfigured")
                  /\ UNCHANGED <<wrapAttrs, fwdWrappers>>
             ELSE IF ~w.ok
             THEN /\ icall' = rec("PreconditionViolation")
                  /\ UNCHANGED <<wrapAttrs, fwdWrappers>>
             ELSE /\ fwdWrappers' = [fwdWrappers EXCEPT ![m] =
                         Append(@, [function_name |-> fn, wrapper |-> w])]
                  /\ wrapAttrs' = [wrapAttrs EXCEPT ![m] = @ \cup {fn}]
                  /\ icall' = rec("ok")
    /\ icalls' = icalls + 1
    /\ UNCHANGED <<mQ, preHooks, rotHandle, seen, firstQ>>

NextInstr ==
    \/ register_online_rotation
    \/ module_forward
    \/ add_qk_rotation_wrapper_after_function_call_in_forward

----------------------------------------------------------------------------
(* Tensors of the query/key wrapper: a shape (batch, heads, sequence,      *)
(* head_dim) and the elements in row-major order. An element is n / 2^e    *)
(* with e the tensor's exponent; a quantized element also carries the grid *)
(* it was rounded onto.                                                    *)

Numel(shape) == shape[1] * shape[2] * shape[3] * shape[4]

Elem(n) == [n |-> n, grid |-> <<>>]

NoTensor == [shape |-> <<0, 0, 0, 0>>, e |-> 0, data |-> <<>>]

\* Entry (i, j), counted from 0, of the n x n Sylvester Hadamard matrix.
RECURSIVE HadSign(_, _, _)
HadSign(i, j, n) ==
    IF n = 1 THEN 1
    ELSE LET h == n \div 2 IN
         HadSign(i % h, j % h, h) * (IF i >= h /\ j >= h THEN -1 ELSE 1)

\* 1 / sqrt(n) as a power of two: 2^-HadExp(n), for n a power of four.
HadExp(n) == CASE n = 1 -> 0 [] n = 4 -> 1 [] n = 16 -> 2

AllEven(data) == \A i \in 1..Len(data) : data[i].n % 2 = 0

\* The same values with the smallest exponent.
RECURSIVE CanonT(_)
CanonT(t) ==
    IF t.e > 0 /\ AllEven(t.data)
    THEN CanonT([t EXCEPT !.e = @ - 1,
                   !.data = [i \in 1..Len(t.data) |->
                               [t.data[i] EXCEPT !.n = @ \div 2]]])
    ELSE t

\* fast_hadamard_transform.hadamard_transform(x, scale = 1 / sqrt(d)) on
\* the last dimension d of x.
hadamard_transform(t) ==
    LET d == t.shape[4]
        row(j) == (j - 1) \div d
        col(j) == (j - 1) % d
    IN  CanonT([t EXCEPT
           !.e = @ + HadExp(d),
           !.data = [j \in 1..Len(t.data) |->
              Elem(SumTo([k \in 1..d |->
                            t.data[row(j) * d + k].n * HadSign(k - 1, col(j), d)],
                         d))]])

\* Flat place, counted from 1, of element (bi, hi, si, di), counted from 0.
Idx4(shape, bi, hi, si, di) ==
    ((bi * shape[2] + hi) * shape[3] + si) * shape[4] + di + 1

\* t.transpose(1, 2), laid out contiguously as reshape does: element
\* (b, i, j, d) of the result is element (b, j, i, d) of t.
transpose_1_2(t) ==
    LET A == t.shape[3]
        C == t.shape[2]
        D == t.shape[4]
    IN  [t EXCEPT
           !.shape = <<t.shape[1], A, C, D>>,
           !.data = [j \in 1..Len(t.data) |->
              t.data[Idx4(t.shape, (j - 1) \div (D * C * A),
                          ((j - 1) \div D) % C,
                          ((j - 1) \div (D * C)) % A, (j - 1) % D)]]]

Min(S) == CHOOSE x \in S : \A y \in S : x <= y
Max(S) == CHOOSE x \in S : \A y \in S : x >= y

\* ActQuantizer.find_params on rows of length rowlen followed by the
\* quantizer call: every element is rounded onto the grid its own row
\* spans (the row's least and greatest value) with 2^bits levels.
quantize_rows(data, rowlen, bits) ==
    LET rowvals(r) == {data[r * rowlen + k].n : k \in 1..rowlen} IN
    [j \in 1..Len(data) |->
        LET r == (j - 1) \div rowlen IN
        [n |-> data[j].n, grid |-> <<Min(rowvals(r)), Max(rowvals(r)), bits>>]]

----------------------------------------------------------------------------
(* QKRotationWrapper.forward                                               *)

\* Bounds of the wrapper model.
MaxBatch == 2      \* batch sizes 1..MaxBatch
MaxKVHeads == 2    \* heads of the key 1..MaxKVHeads
MaxSeq == 2        \* sequence lengths 1..MaxSeq
MaxForwards == 2   \* forward calls on one wrapper

\* The last dimension of the tensors the wrapped function returns.
QKLastDim == 4

QKConfigs ==
    { WrapperConfig(hs, nh, bits, gs, dis) :
        hs \in {4, 8}, nh \in {1, 2}, bits \in {4, 16}, gs \in {-1, 4, 2},
        dis \in BOOLEAN }

\* Values of a returned tensor, all different within one tensor.
Pattern(p, N) ==
    [i \in 1..N |-> Elem(IF p = 1 THEN i ELSE 3 * i - N)]

FuncTensor(b, h, s, p) ==
    [shape |-> <<b, h, s, QKLastDim>>, e |-> 0,
     data |-> Pattern(p, b * h * s * QKLastDim)]

NoCalls == [find_params |-> 0, quantize |-> 0, free |-> 0]
NoReturn == [ok |-> FALSE, q |-> NoTensor, k |-> NoTensor]

InitQK ==
    /\ qpc = "new"
    /\ qwrap = NoWrapper
    /\ qin = NoTensor
    /\ kin = NoTensor
    /\ qcur = NoTensor
    /\ kcur = NoTensor
    /\ qkret = NoReturn
    /\ quantCalls = NoCalls
    /\ qkerr = "none"
    /\ qcalls = 0

\* QKRotationWrapper(func, config, **kwargs)
qk_construct ==
    /\ UNCHANGED notQK
    /\ qpc = "new"
    /\ \E cfg \in QKConfigs :
         LET w == QKRotationWrapper_init(cfg) IN
         IF w.ok
         THEN qwrap' = w /\ qpc' = "ready" /\ qkerr' = "none"
         ELSE qwrap' = w /\ qpc' = "failed" /\ qkerr' = "PreconditionViolation"
    /\ UNCHANGED <<qin, kin, qcur, kcur, qkret, quantCalls, qcalls>>

\* forward: q, k = self.func(...); assert self.head_dim == q.shape[-1]
qk_forward_call ==
    /\ UNCHANGED notQK
    /\ qpc = "ready"
    /\ qcalls < MaxForwards
    /\ qcalls' = qcalls + 1
    /\ \E b \in 1..MaxBatch, h \in 1..MaxKVHeads, s \in 1..MaxSeq,
          p \in 1..2 :
         /\ qin' = FuncTensor(b, qwrap.hidden_size \div qwrap.head_dim, s, p)
         /\ kin' = FuncTensor(b, h, s, p)
    /\ qcur' = qin'
    /\ kcur' = kin'
    /\ quantCalls' = NoCalls
    /\ qkret' = NoReturn
    /\ IF qwrap.head_dim = qin'.shape[4]
       THEN qpc' = "rotate" /\ qkerr' = "none"
       ELSE qpc' = "ready" /\ qkerr' = "PreconditionViolation"
    /\ UNCHANGED qwrap

\* if not self.disable_qk_rotation: q and k get the Hadamard transform.
qk_rotate ==
    /\ UNCHANGED notQK
    /\ qpc = "rotate"
    /\ IF ~qwrap.disable_qk_rotation
       THEN qcur' = hadamard_transform(qcur) /\ kcur' = hadamard_transform(kcur)
       ELSE UNCHANGED <<qcur, kcur>>
    /\ qpc' = "quantize"
    /\ UNCHANGED <<qwrap, qin, kin, qkret, quantCalls, qkerr, qcalls>>

\* The guard taken one too wide.
quantizes_le(w) == w.k_bits <= 16

\* if self.k_bits < 16
quantizes(w) == w.k_bits < 16

\* reshape(-1, self.config.hidden_size): the row length of the token-wise
\* path.
token_row_len(w, k) == w.hidden_size

\* The two quantization paths, or neither.
qk_quantize ==
    /\ UNCHANGED notQK
    /\ qpc = "quantize"
    /\ LET bsz == kcur.shape[1]
           num_heads == kcur.shape[2]
           seq_len == kcur.shape[3]
           head_dim == kcur.shape[4]
           counted == [quantCalls EXCEPT !.find_params = @ + 1,
                                         !.quantize = @ + 1]
       IN
       IF ~quantizes(qwrap)
       THEN /\ qpc' = "free"
            /\ UNCHANGED <<kcur, quantCalls, qkerr>>
       ELSE IF qwrap.k_groupsize = -1
       THEN LET t == transpose_1_2(kcur)
                rowlen == token_row_len(qwrap, kcur)
            IN  IF Len(t.data) % rowlen # 0
                THEN \* reshape raises: the sizes do not fit
                     /\ qpc' = "ready"
                     /\ qkerr' = "RuntimeError"
                     /\ UNCHANGED <<kcur, quantCalls>>
                ELSE /\ kcur' = transpose_1_2(
                            [shape |-> <<bsz, seq_len, num_heads, head_dim>>,
                             e |-> t.e,
                             data |-> quantize_rows(t.data, rowlen,
                                                    qwrap.k_bits)])
                     /\ quantCalls' = counted
                     /\ qpc' = "free"
                     /\ UNCHANGED qkerr
       ELSE /\ kcur' = [shape |-> <<bsz, num_heads, seq_len, head_dim>>,
                        e |-> kcur.e,
                        data |-> quantize_rows(kcur.data, head_dim,
                                               qwrap.k_bits)]
            /\ quantCalls' = counted
            /\ qpc' = "free"
            /\ UNCHANGED qkerr
    /\ UNCHANGED <<qwrap, qin, kin, qcur, qkret, qcalls>>

\* self.k_quantizer.free(); return q, k
qk_return ==
    /\ UNCHANGED notQK
    /\ qpc = "free"
    /\ quantCalls' = [quantCalls EXCEPT !.free = @ + 1]
    /\ qkret' = [ok |-> TRUE, q |-> qcur, k |-> kcur]
    /\ qpc' = "ready"
    /\ UNCHANGED <<qwrap, qin, kin, qcur, kcur, qkerr, qcalls>>

NextQK ==
    \/ qk_construct
    \/ qk_forward_call
    \/ qk_rotate
    \/ qk_quantize
    \/ qk_return

----------------------------------------------------------------------------
(* capture_layer_io                                                        *)

\* Bounds of the capture model.
MaxCaptures == 3       \* capture_layer_io calls on the layer
MaxCaptureBatch == 2   \* layer_input.shape[0] is 0..MaxCaptureBatch

ModelTypes == {"LLAMA_MODEL", "MISTRAL_MODEL", "QW_MODEL"}

\* The keys of captured_inputs and of captured_outputs.
CapturedInputNames == {"k_proj", "o_proj", "gate_proj", "down_proj"}
CapturedOutputNames == {"v_proj"}

\* The sublayers one forward pass of a Llama layer calls, once each.
LayerSublayers == {"q_proj", "k_proj", "v_proj", "o_proj", "gate_proj",
                   "up_proj", "down_proj"}

EmptyCapture == [input |-> [n \in CapturedInputNames |-> <<>>],
                 output |-> [n \in CapturedOutputNames |-> <<>>]]

\* One captured tensor: input[0] or output of one replayed sequence, whose
\* first dimension is 1.
Captured(seq_idx) == [seq |-> seq_idx, dim0 |-> 1]

\* torch.cat(list, dim=0): the first dimensions add up.
Cat(list) == [dim0 |-> SumTo([i \in 1..Len(list) |-> list[i].dim0], Len(list)),
              seqs |-> [i \in 1..Len(list) |-> list[i].seq]]

HooksOf(call) ==
    { [call |-> call, module |-> n, is_input |-> TRUE] : n \in CapturedInputNames }
      \cup { [call |-> call, module |-> n, is_input |-> FALSE] :
                n \in CapturedOutputNames }

\* hook(module, input, output) of every hook attached to a sublayer the
\* forward pass calls: it appends to the list of the call that attached it.
fire_hooks(caps, hooks, seq_idx) ==
    [c \in DOMAIN caps |->
        [input |-> [n \in CapturedInputNames |->
            IF [call |-> c, module |-> n, is_input |-> TRUE] \in hooks
                 /\ n \in LayerSublayers
            THEN Append(caps[c].input[n], Captured(seq_idx))
            ELSE caps[c].input[n]],
         output |-> [n \in CapturedOutputNames |->
            IF [call |-> c, module |-> n, is_input |-> FALSE] \in hooks
                 /\ n \in LayerSublayers
            THEN Append(caps[c].output[n], Captured(seq_idx))
            ELSE caps[c].output[n]]]]

\* The cleanup loop left out.
remove_no_handles(hooks, handles) == hooks

\* for h in handles: h.remove()
remove_handles(hooks, handles) == hooks \ handles

NoCapture == [kind |-> "none", input |-> <<>>, output |-> <<>>]

InitCap ==
    /\ cpc = "idle"
    /\ chooks = {}
    /\ captured = <<>>
    /\ chandles = {}
    /\ cN = 0
    /\ cseq = 0
    /\ cret = NoCapture
    /\ ccalls = 0
    /\ cfailed = {}

\* capture_layer_io(model_type, layer, layer_input) up to the replay loop:
\* the hooks are attached, or ValueError for a model type other than Llama.
capture_call ==
    /\ UNCHANGED notCap
    /\ cpc = "idle"
    /\ ccalls < MaxCaptures
    /\ ccalls' = ccalls + 1
    /\ \E model_type \in ModelTypes, N \in 0..MaxCaptureBatch :
         /\ cN' = N
         /\ IF model_type = "LLAMA_MODEL"
            THEN /\ chandles' = HooksOf(ccalls + 1)
                 /\ chooks' = chooks \cup HooksOf(ccalls + 1)
                 /\ captured' = Append(captured, EmptyCapture)
                 /\ cret' = NoCapture
                 /\ cpc' = "replay"
            ELSE /\ chandles' = {}
                 /\ captured' = Append(captured, EmptyCapture)
                 /\ cret' = [NoCapture EXCEPT !.kind = "UnsupportedModel"]
                 /\ cpc' = "idle"
                 /\ UNCHANGED chooks
    /\ cseq' = 0
    /\ UNCHANGED cfailed

\* One turn of the replay loop: layer(seq) runs and every attached hook
\* fires once.
capture_replay ==
    /\ UNCHANGED notCap
    /\ cpc = "replay"
    /\ cseq < cN
    /\ captured' = fire_hooks(captured, chooks, cseq)
    /\ cseq' = cseq + 1
    /\ UNCHANGED <<cpc, chooks, chandles, cN, cret, ccalls, cfailed>>

\* layer(seq) raises: the error leaves capture_layer_io at once.
capture_replay_raises ==
    /\ UNCHANGED notCap
    /\ cpc = "replay"
    /\ cseq < cN
    /\ cret' = [NoCapture EXCEPT !.kind = "ForwardError"]
    /\ cfailed' = cfailed \cup {ccalls}
    /\ cpc' = "idle"
    /\ UNCHANGED <<chooks, captured, chandles, cN, cseq, ccalls>>

\* After the loop: torch.cat of every list; torch.cat raises on an empty
\* list, which is what the lists are when the batch was empty.
capture_concat ==
    /\ UNCHANGED notCap
    /\ cpc = "replay"
    /\ cseq = cN
    /\ IF \E n \in CapturedInputNames : captured[ccalls].input[n] = <<>>
       THEN /\ cret' = [NoCapture EXCEPT !.kind = "RuntimeError"]
            /\ cfailed' = cfailed \cup {ccalls}
            /\ cpc' = "idle"
       ELSE /\ cpc' = "cleanup"
            /\ UNCHANGED <<cret, cfailed>>
    /\ UNCHANGED <<chooks, captured, chandles, cN, cseq, ccalls>>

\* The handles are removed and the two dictionaries returned.
capture_return ==
    /\ UNCHANGED notCap
    /\ cpc = "cleanup"
    /\ chooks' = remove_handles(chooks, chandles)
    /\ cret' = [kind |-> "returned",
                input |-> [n \in CapturedInputNames |->
                             Cat(captured[ccalls].input[n])],
                output |-> [n \in CapturedOutputNames |->
                             Cat(captured[ccalls].output[n])]]
    /\ cpc' = "idle"
    /\ UNCHANGED <<captured, chandles, cN, cseq, ccalls, cfailed>>

NextCap ==
    \/ capture_call
    \/ capture_replay
    \/ capture_replay_raises
    \/ capture_concat
    \/ capture_return

----------------------------------------------------------------------------
(* replace_modules                                                         *)

\* Bound of the replace_modules model.
NumNodes == 4      \* modules below root

Nodes == 1..NumNodes

\* The hierarchies: module i hangs below root (0) or below an earlier
\* module; the modules are numbered level by level, so each shape of tree
\* comes once. A module's children are in the order of their numbers, the
\* order named_children() yields them in.
Hierarchies ==
    { p \in [Nodes -> 0..(NumNodes - 1)] :
        /\ \A i \in Nodes : p[i] < i
        /\ \A i \in Nodes : i > 1 => p[i - 1] <= p[i] }

RECURSIVE SortedSeq(_)
SortedSeq(S) ==
    IF S = {} THEN <<>> ELSE <<Min(S)>> \o SortedSeq(S \ {Min(S)})

\* list(module.named_children()), by module number
Children(p, m) == SortedSeq({i \in Nodes : p[i] = m})

Digits == <<"0", "1", "2", "3", "4", "5", "6", "7", "8", "9">>

\* str(n) for n >= 0
RECURSIVE DecStr(_)
DecStr(n) ==
    IF n < 10 THEN <<Digits[n + 1]>>
    ELSE DecStr(n \div 10) \o <<Digits[(n % 10) + 1]>>

DigitValue(c) == CHOOSE d \in 0..9 : Digits[d + 1] = c

IsDigit(c) == \E d \in 0..9 : Digits[d + 1] = c

\* int(name): the number a name of decimal digits stands for, -1 for
\* ValueError.
RECURSIVE ParseInt(_)
ParseInt(name) ==
    IF name = <<>> \/ \E i \in 1..Len(name) : ~IsDigit(name[i]) THEN -1
    ELSE IF Len(name) = 1 THEN DigitValue(name[1])
    ELSE 10 * ParseInt(SubSeq(name, 1, Len(name) - 1))
           + DigitValue(name[Len(name)])

\* Attribute names: the index names a ModuleList gives its children (here
\* from "8" on, so that some have two digits) and identifiers.
IndexName(i) == DecStr(7 + i)
IdentName(i) == <<"m">> \o DecStr(i)

Original(i) == [kind |-> "original", of |-> i, index |-> -1]

\* What new_module_factory(module) or new_module_factory(module, int(name))
\* returns when it returns a module
Replacement(i, index) == [kind |-> "replacement", of |-> i, index |-> index]

None == [kind |-> "None", of |-> 0, index |-> -1]

InitRepl ==
    /\ tparent = [i \in Nodes |-> 0]
    /\ tmatch = [i \in Nodes |-> FALSE]
    /\ tname = [i \in Nodes |-> IdentName(i)]
    /\ replace_layers = FALSE
    /\ factory_none = FALSE
    /\ tslot = [i \in Nodes |-> Original(i)]
    /\ tstack = <<>>
    /\ tvisited = {}
    /\ fcalls = <<>>
    /\ tpc = "idle"

\* replace_modules(root, type_to_replace, new_module_factory,
\* replace_layers) is called on some hierarchy.
replace_modules ==
    /\ UNCHANGED notRepl
    /\ tpc = "idle"
    /\ tparent' \in Hierarchies
    /\ tmatch' \in [Nodes -> BOOLEAN]
    /\ \E numeric \in [Nodes -> BOOLEAN] :
         tname' = [i \in Nodes |-> IF numeric[i] THEN IndexName(i)
                                   ELSE IdentName(i)]
    /\ replace_layers' \in BOOLEAN
    /\ factory_none' \in BOOLEAN
    /\ tstack' = <<[root |-> 0, todo |-> Children(tparent', 0)]>>
    /\ tpc' = "run"
    /\ UNCHANGED <<tslot, tvisited, fcalls>>

\* The recursion guard left out: the loop also enters a replaced module.
descends_always(matches, children) == children # <<>>

\* elif len(list(module.children())) > 0, reached when the module is no
\* instance of type_to_replace
descends(matches, children) == ~matches /\ children # <<>>

\* One turn of the loop of the innermost active call, for the child
\* `module` named `name`.
replace_step ==
    /\ UNCHANGED notRepl
    /\ tpc = "run"
    /\ tstack # <<>>
    /\ Head(tstack).todo # <<>>
    /\ LET frame == Head(tstack)
           module == Head(frame.todo)
           name == tname[module]
           rest == <<[frame EXCEPT !.todo = Tail(@)]>> \o Tail(tstack)
           kids == Children(tparent, module)
       IN
       /\ tvisited' = tvisited \cup {module}
       /\ IF tmatch[module] /\ replace_layers /\ ParseInt(name) = -1
          THEN \* int(name) raises ValueError through every active call
               /\ tpc' = "ValueError"
               /\ tstack' = <<>>
               /\ UNCHANGED <<tslot, fcalls>>
          ELSE IF tmatch[module]
          THEN LET index == IF replace_layers THEN ParseInt(name) ELSE -1
                   new_module == IF factory_none THEN None
                                 ELSE Replacement(module, index)
               IN  /\ fcalls' = Append(fcalls, [module |-> module,
                                                index |-> index])
                   /\ tslot' = IF new_module # None
                                THEN [tslot EXCEPT ![module] = new_module]
                                ELSE tslot
                   /\ tstack' = IF descends(TRUE, kids)
                                 THEN <<[root |-> module, todo |-> kids]>> \o rest
                                 ELSE rest
                   /\ UNCHANGED tpc
          ELSE /\ tstack' = IF descends(FALSE, kids)
                            THEN <<[root |-> module, todo |-> kids]>> \o rest
                            ELSE rest
               /\ UNCHANGED <<tslot, fcalls, tpc>>
    /\ UNCHANGED <<tparent, tmatch, tname, replace_layers, factory_none>>

\* The loop of the innermost active call is over: the call returns.
replace_return ==
    /\ UNCHANGED notRepl
    /\ tpc = "run"
    /\ tstack # <<>>
    /\ Head(tstack).todo = <<>>
    /\ tstack' = Tail(tstack)
    /\ tpc' = IF Tail(tstack) = <<>> THEN "done" ELSE "run"
    /\ UNCHANGED <<tparent, tmatch, tname, replace_layers, factory_none, tslot,
                   tvisited, fcalls>>

NextRepl ==
    \/ replace_modules
    \/ replace_step
    \/ replace_return

----------------------------------------------------------------------------
(* Layer-norm fusion and rotation of a model                               *)

\* Bounds of the rotation model.
NumLayers == 2     \* transformer layers
VocabSize == 2     \* rows of the embedding and of the head

\* config.num_attention_heads, the head width, config.hidden_size and
\* config.intermediate_size of the models rotated here. The widths that get
\* a Hadamard are powers of four, so that 1 / sqrt(width) is a power of two.
NumHeads == 2
HeadDim == 4
HiddenSize == NumHeads * HeadDim
IntermediateSize == 4

\* Bits of the significand of torch.float16, the hidden bit included.
HalfSignificand == 11

(* Matrices of dyadic rationals: [e, m] stands for m / 2^e, with e the
   smallest exponent that keeps m integer. A vector is a matrix of one row. *)

RECURSIVE Pow2(_)
Pow2(k) == IF k = 0 THEN 1 ELSE 2 * Pow2(k - 1)

Abs(n) == IF n < 0 THEN -n ELSE n

Sign(n) == IF n > 0 THEN 1 ELSE IF n < 0 THEN -1 ELSE 0

\* Bits of n >= 0
RECURSIVE BitLen(_)
BitLen(n) == IF n = 0 THEN 0 ELSE 1 + BitLen(n \div 2)

NoMatrix == [e |-> 0, m |-> <<>>]

AllEvenM(m) ==
    \A i \in 1..Len(m) : \A j \in 1..Len(m[i]) : m[i][j] % 2 = 0

\* The rows of m written out as tuples of tuples, so that an entry is
\* worked out once and not at every later use
Written(m) == [i \in 1..Len(m) |-> m[i] \o <<>>] \o <<>>

RECURSIVE CanonM(_)
CanonM(A) ==
    IF A.e > 0 /\ AllEvenM(A.m)
    THEN CanonM([e |-> A.e - 1,
                 m |-> Written([i \in 1..Len(A.m) |->
                          [j \in 1..Len(A.m[i]) |-> A.m[i][j] \div 2]])])
    ELSE A

DM(e, m) == CanonM([e |-> e, m |-> Written(m)])

\* torch.matmul(A, B)
matmul(A, B) == DM(A.e + B.e, MMul(A.m, B.m))

\* A.T
Transpose(A) == [e |-> A.e, m |-> MT(A.m)]

\* The integers of A at the exponent e >= A.e
AtExponent(A, e) ==
    [i \in 1..Len(A.m) |->
        [j \in 1..Len(A.m[i]) |-> A.m[i][j] * Pow2(e - A.e)]]

\* A + B
Plus(A, B) ==
    LET e == IF A.e > B.e THEN A.e ELSE B.e
        a == AtExponent(A, e)
        b == AtExponent(B, e)
    IN  DM(e, [i \in 1..Len(a) |-> [j \in 1..Len(a[i]) |-> a[i][j] + b[i][j]]])

\* torch.nn.functional.linear(x, W): x @ W.T
linear(x, W) == matmul(x, Transpose(W))

\* Row i of W, as a vector
Row(W, i) == DM(W.e, <<W.m[i]>>)

IdentityMatrix(n) ==
    [e |-> 0, m |-> [i \in 1..n |-> [j \in 1..n |-> IF i = j THEN 1 ELSE 0]]]

\* n rounded to HalfSignificand significant bits, ties to even
RoundSignificand(n) ==
    LET bits == BitLen(Abs(n)) IN
    IF bits <= HalfSignificand THEN n
    ELSE LET unit == Pow2(bits - HalfSignificand)
             q == Abs(n) \div unit
             r == Abs(n) % unit
             up == 2 * r > unit \/ (2 * r = unit /\ q % 2 = 1)
         IN  Sign(n) * (IF up THEN q + 1 ELSE q) * unit

\* W.to(dtype) for the float16 the model is loaded in: every value keeps the
\* significand float16 has room for.
to_dtype(A) ==
    DM(A.e, [i \in 1..Len(A.m) |->
               [j \in 1..Len(A.m[i]) |-> RoundSignificand(A.m[i][j])]])

\* The normalised Hadamard matrix of size n, n a power of four
HadamardMatrix(n) ==
    DM(HadExp(n),
       [i \in 1..n |-> [j \in 1..n |-> HadSign(i - 1, j - 1, n)]])

\* count copies of the square matrix B along the diagonal
BlockDiag(B, count) ==
    LET n == Len(B.m) IN
    [e |-> B.e,
     m |-> [i \in 1..(n * count) |-> [j \in 1..(n * count) |->
              IF (i - 1) \div n = (j - 1) \div n
              THEN B.m[((i - 1) % n) + 1][((j - 1) % n) + 1]
              ELSE 0]]]

\* hadamard_utils.apply_exact_had_to_linear(module, had_dim, output) on the
\* weight W of a linear: the Hadamard transform of the whole output or input
\* side (had_dim = -1), or of every block of had_dim outputs or inputs.
apply_exact_had_to_linear(W, had_dim, output) ==
    LET side == IF output THEN Len(W.m) ELSE Len(W.m[1])
        H == IF had_dim = -1 THEN HadamardMatrix(side)
             ELSE BlockDiag(HadamardMatrix(had_dim), side \div had_dim)
    IN  to_dtype(IF output THEN matmul(H, W) ELSE matmul(W, H))

(* The orthogonal matrices Q handed to rotate_model *)

\* The cyclic shift with alternating signs
SignedShift(n) ==
    [e |-> 0,
     m |-> [i \in 1..n |-> [j \in 1..n |->
              IF j = (i % n) + 1 THEN (IF i % 2 = 0 THEN 1 ELSE -1) ELSE 0]]]

\* On every block of four coordinates the reflection I - J / 2
BlockReflection(n) ==
    DM(1, [i \in 1..n |-> [j \in 1..n |->
             IF (i - 1) \div 4 # (j - 1) \div 4 THEN 0
             ELSE IF i = j THEN 1 ELSE -1]])

IsOrthogonal(Q) == matmul(Q, Transpose(Q)) = IdentityMatrix(Len(Q.m))

RotationMatrices ==
    { Q \in { IdentityMatrix(HiddenSize),
              SignedShift(HiddenSize),
              matmul(SignedShift(HiddenSize), BlockReflection(HiddenSize)) } :
        IsOrthogonal(Q) }

(* The checkpoints *)

Families == {"llama", "mistral", "qwen"}

WeightSeeds == {0, 1}

\* A sparse weight matrix of entries -1, 0, 1
Weight(rows, cols, a, b, c, seed) ==
    [e |-> 0,
     m |-> [i \in 1..rows |-> [j \in 1..cols |->
              LET r == (a * i + b * j + c * i * j + seed) % 5
              IN  IF r = 0 THEN -1 ELSE IF r = 4 THEN 1 ELSE 0]]]

\* The scale vector of norm number k: all ones, or ones and twos
NormScale(k, uniform) ==
    [j \in 1..HiddenSize |-> IF uniform THEN 1 ELSE 1 + ((j + k) % 2)]

Ones == [j \in 1..HiddenSize |-> 1]

CheckpointLayer(l, seed, uniform) ==
    [ q_proj |-> Weight(HiddenSize, HiddenSize, 1, 1, 1, seed + l),
      k_proj |-> Weight(HiddenSize, HiddenSize, 2, 1, 1, seed + l + 1),
      v_proj |-> Weight(HiddenSize, HiddenSize, 1, 2, 0, seed + l + 2),
      o_proj |-> Weight(HiddenSize, HiddenSize, 2, 2, 1, seed + l),
      up_proj |-> Weight(IntermediateSize, HiddenSize, 1, 0, 1, seed + l + 1),
      gate_proj |-> Weight(IntermediateSize, HiddenSize, 0, 1, 1, seed + l + 2),
      down_proj |-> Weight(HiddenSize, IntermediateSize, 1, 1, 2, seed + l),
      input_layernorm |-> NormScale(2 * l - 1, uniform),
      post_attention_layernorm |-> NormScale(2 * l, uniform),
      hasQ |-> FALSE,
      Q |-> NoMatrix ]

\* What from_pretrained returns: with config.tie_word_embeddings the head's
\* weight is the embedding's parameter (shared), and lm_head holds none of
\* its own.
Checkpoint(family, tie, seed, uniform) ==
    [ family |-> family,
      tie |-> tie,
      shared |-> tie,
      embed_tokens |-> Weight(VocabSize, HiddenSize, 1, 2, 1, seed),
      lm_head |-> IF tie THEN NoMatrix
                  ELSE Weight(VocabSize, HiddenSize, 2, 1, 0, seed + 1),
      norm |-> NormScale(0, uniform),
      layers |-> [l \in 1..NumLayers |-> CheckpointLayer(l, seed, uniform)] ]

EmptyModel ==
    [ family |-> "none", tie |-> FALSE, shared |-> FALSE,
      embed_tokens |-> NoMatrix, lm_head |-> NoMatrix, norm |-> <<>>,
      layers |-> <<>> ]

\* model.lm_head.weight
HeadWeight(model) ==
    IF model.shared THEN model.embed_tokens ELSE model.lm_head

\* model.lm_head.weight.data = W
WithHeadWeight(model, W) ==
    IF model.shared THEN [model EXCEPT !.embed_tokens = W]
    ELSE [model EXCEPT !.lm_head = W]

\* get_qwen: a tied head gets a parameter of its own, a clone of the
\* embedding; get_llama and get_mistral return the model as loaded.
loader_result(model) ==
    IF model.family = "qwen" /\ model.tie
    THEN [model EXCEPT !.shared = FALSE, !.lm_head = model.embed_tokens]
    ELSE model

(* The forward pass of the loaded network, for one token. The decoder
   classes belong to the model library; what the rotation relies on is kept:
   the norm scales its input by a function of the input's length, the
   attention weights are a function of the scores q . k of each head, and
   the MLP gates its up projection element by element.                     *)

LimbBase == Pow2(13)

\* u . v, exact beyond the width of an integer, as
\* top * LimbBase^2 + mid * LimbBase + low with 0 <= mid, low < LimbBase
BigDot(u, v) ==
    LET n == Len(u)
        hh == SumTo([i \in 1..n |->
                       (u[i] \div LimbBase) * (v[i] \div LimbBase)], n)
        hl == SumTo([i \in 1..n |->
                       (u[i] \div LimbBase) * (v[i] % LimbBase)
                         + (u[i] % LimbBase) * (v[i] \div LimbBase)], n)
        ll == SumTo([i \in 1..n |-> (u[i] % LimbBase) * (v[i] % LimbBase)], n)
        mid == hl + (ll \div LimbBase)
    IN  [top |-> hh + (mid \div LimbBase),
         mid |-> mid % LimbBase,
         low |-> ll % LimbBase]

BigSign(d) ==
    IF d.top # 0 THEN Sign(d.top)
    ELSE IF d.mid + d.low > 0 THEN 1 ELSE 0

\* Bits of d >= 0
BigBitLen(d) ==
    IF d.top > 0 THEN BitLen(d.top) + 26
    ELSE IF d.mid > 0 THEN BitLen(d.mid) + 13
    ELSE BitLen(d.low)

\* RMSNorm with scale vector g: x * g / rms(x), with the root mean square
\* taken down to a power of two, 2^t <= rms(x) < 2^(t + 1) (HiddenSize is a
\* power of two). The zero vector stays zero.
RMSNorm(x, g) ==
    LET row == x.m[1]
        sq == BigDot(row, row)
        \* 4^t <= (sq / 4^e) / HiddenSize < 4^(t + 1)
        t == ((BigBitLen(sq) - 1 - (BitLen(HiddenSize) - 1)) \div 2) - x.e
        scaled == [j \in 1..Len(row) |-> row[j] * g[j]]
    IN  IF BigSign(sq) = 0 THEN x
        ELSE IF x.e + t >= 0 THEN DM(x.e + t, <<scaled>>)
        ELSE DM(0, <<[j \in 1..Len(row) |-> scaled[j] * Pow2(-(x.e + t))]>>)

\* Coordinates of head h
HeadSlice(row, h) == [i \in 1..HeadDim |-> row[(h - 1) * HeadDim + i]]

\* One position attending to itself: every head's value, weighted by a
\* function of the head's score q . k (its sign).
attention(q, k, v) ==
    DM(v.e, <<[j \in 1..Len(v.m[1]) |->
                LET h == ((j - 1) \div HeadDim) + 1
                IN  BigSign(BigDot(HeadSlice(q.m[1], h), HeadSlice(k.m[1], h)))
                      * v.m[1][j]]>>)

\* act_fn(gate) * up, with a step for the activation
gated(gate, up) ==
    DM(up.e, <<[j \in 1..Len(up.m[1]) |->
                 IF gate.m[1][j] > 0 THEN up.m[1][j] ELSE 0]>>)

\* The forward pre-hook online_rotate on down_proj, if registered:
\* torch.nn.functional.linear(x, module.Q)
down_proj_input(layer, x) == IF layer.hasQ THEN linear(x, layer.Q) ELSE x

DecoderLayer(layer, x) ==
    LET a == RMSNorm(x, layer.input_layernorm)
        attn == attention(linear(a, layer.q_proj), linear(a, layer.k_proj),
                          linear(a, layer.v_proj))
        h == Plus(x, linear(attn, layer.o_proj))
        b == RMSNorm(h, layer.post_attention_layernorm)
        act == gated(linear(b, layer.gate_proj), linear(b, layer.up_proj))
    IN  Plus(h, linear(down_proj_input(layer, act), layer.down_proj))

RECURSIVE RunLayers(_, _, _)
RunLayers(layers, l, x) ==
    IF l > Len(layers) THEN x
    ELSE RunLayers(layers, l + 1, DecoderLayer(layers[l], x))

\* model(token).logits
Logits(model, token) ==
    linear(RMSNorm(RunLayers(model.layers, 1, Row(model.embed_tokens, token)),
                   model.norm),
           HeadWeight(model))

(* fuse_layer_norms *)

\* fuse_ln_linear with the scale laid along the rows
fuse_ln_linear_rows(W, g) ==
    to_dtype(DM(W.e, [i \in 1..Len(W.m) |->
                        [j \in 1..Len(W.m[i]) |-> W.m[i][j] * g[i]]]))

\* fuse_ln_linear on one linear: (W_ * layernorm.weight).to(linear_dtype).
\* The norms have no bias.
fuse_ln_linear(W, g) ==
    to_dtype(DM(W.e, [i \in 1..Len(W.m) |->
                        [j \in 1..Len(W.m[i]) |-> W.m[i][j] * g[j]]]))

fused_layer(layer) ==
    [layer EXCEPT
       !.up_proj = fuse_ln_linear(@, layer.post_attention_layernorm),
       !.gate_proj = fuse_ln_linear(@, layer.post_attention_layernorm),
       !.q_proj = fuse_ln_linear(@, layer.input_layernorm),
       !.k_proj = fuse_ln_linear(@, layer.input_layernorm),
       !.v_proj = fuse_ln_linear(@, layer.input_layernorm),
       !.post_attention_layernorm = Ones,
       !.input_layernorm = Ones]

fused_model(model) ==
    LET layers_done ==
            [model EXCEPT !.layers =
                [l \in 1..Len(model.layers) |-> fused_layer(model.layers[l])]]
        head_done ==
            WithHeadWeight(layers_done,
                           fuse_ln_linear(HeadWeight(layers_done), model.norm))
    IN  [head_done EXCEPT !.norm = Ones]

(* rotate_model, step by step *)

\* torch.matmul(W_, Q).to(dtype)
rotate_input_weight(W, Q) == to_dtype(matmul(W, Q))

\* The output side rotated by Q in place of Q.T
rotate_output_weight_untransposed(W, Q) == to_dtype(matmul(Q, W))

\* torch.matmul(Q.T, W_).to(dtype)
rotate_output_weight(W, Q) == to_dtype(matmul(Transpose(Q), W))

ModelSteps == {"rotate_embeddings", "rotate_head", "cleanup_memory"}

LayerSteps == {"rotate_attention_inputs", "rotate_attention_output",
               "rotate_mlp_input", "rotate_mlp_output", "rotate_ov_proj"}

RotateSteps == ModelSteps \cup LayerSteps

\* A step of rotate_model, and the layer it works on (0: the whole model)
Entered(step, layer) == [step |-> step, layer |-> layer]

NoError == [step |-> "none", layer |-> 0, done |-> 0]

InitRot ==
    /\ rpc = "idle"
    /\ rmodel = EmptyModel
    /\ rprefuse = EmptyModel
    /\ rorig = EmptyModel
    /\ rQ = NoMatrix
    /\ rlayer = 0
    /\ rfused = FALSE
    /\ rtrace = <<>>
    /\ rerror = NoError

\* One of the loaders returns a model.
get_family_model ==
    /\ UNCHANGED notRot
    /\ rpc = "idle"
    /\ \E family \in Families, tie \in BOOLEAN, seed \in WeightSeeds,
          uniform \in BOOLEAN :
         rmodel' = loader_result(Checkpoint(family, tie, seed, uniform))
    /\ rpc' = "loaded"
    /\ UNCHANGED <<rprefuse, rorig, rQ, rlayer, rfused, rtrace, rerror>>

fuse_layer_norms ==
    /\ UNCHANGED notRot
    /\ rpc = "loaded"
    /\ ~rfused
    /\ rprefuse' = rmodel
    /\ rmodel' = fused_model(rmodel)
    /\ rfused' = TRUE
    /\ UNCHANGED <<rpc, rorig, rQ, rlayer, rtrace, rerror>>

\* rotate_model(model, Q) is entered.
rotate_model ==
    /\ UNCHANGED notRot
    /\ rpc = "loaded"
    /\ rQ' \in RotationMatrices
    /\ rorig' = rmodel
    /\ rpc' = "rotate_embeddings"
    /\ UNCHANGED <<rmodel, rprefuse, rlayer, rfused, rtrace, rerror>>

rotate_embeddings ==
    /\ UNCHANGED notRot
    /\ rpc = "rotate_embeddings"
    /\ rmodel' = [rmodel EXCEPT !.embed_tokens = rotate_input_weight(@, rQ)]
    /\ rpc' = "rotate_head"
    /\ rtrace' = Append(rtrace, Entered("rotate_embeddings", 0))
    /\ UNCHANGED <<rprefuse, rorig, rQ, rlayer, rfused, rerror>>

rotate_head ==
    /\ UNCHANGED notRot
    /\ rpc = "rotate_head"
    /\ rmodel' = WithHeadWeight(rmodel,
                                rotate_input_weight(HeadWeight(rmodel), rQ))
    /\ rpc' = "cleanup_memory"
    /\ rtrace' = Append(rtrace, Entered("rotate_head", 0))
    /\ UNCHANGED <<rprefuse, rorig, rQ, rlayer, rfused, rerror>>

\* misc.cleanup_memory(), then the loop over the layers starts.
cleanup_memory ==
    /\ UNCHANGED notRot
    /\ rpc = "cleanup_memory"
    /\ rlayer' = 1
    /\ rpc' = IF Len(rmodel.layers) = 0 THEN "rotated"
              ELSE "rotate_attention_inputs"
    /\ rtrace' = Append(rtrace, Entered("cleanup_memory", 0))
    /\ UNCHANGED <<rmodel, rprefuse, rorig, rQ, rfused, rerror>>

rotate_attention_inputs ==
    /\ UNCHANGED notRot
    /\ rpc = "rotate_attention_inputs"
    /\ rmodel' = [rmodel EXCEPT
                    !.layers[rlayer].q_proj = rotate_input_weight(@, rQ),
                    !.layers[rlayer].k_proj = rotate_input_weight(@, rQ),
                    !.layers[rlayer].v_proj = rotate_input_weight(@, rQ)]
    /\ rpc' = "rotate_attention_output"
    /\ rtrace' = Append(rtrace, Entered("rotate_attention_inputs", rlayer))
    /\ UNCHANGED <<rprefuse, rorig, rQ, rlayer, rfused, rerror>>

rotate_attention_output ==
    /\ UNCHANGED notRot
    /\ rpc = "rotate_attention_output"
    /\ rmodel' = [rmodel EXCEPT
                    !.layers[rlayer].o_proj = rotate_output_weight(@, rQ)]
    /\ rpc' = "rotate_mlp_input"
    /\ rtrace' = Append(rtrace, Entered("rotate_attention_output", rlayer))
    /\ UNCHANGED <<rprefuse, rorig, rQ, rlayer, rfused, rerror>>

rotate_mlp_input ==
    /\ UNCHANGED notRot
    /\ rpc = "rotate_mlp_input"
    /\ rmodel' = [rmodel EXCEPT
                    !.layers[rlayer].up_proj = rotate_input_weight(@, rQ),
                    !.layers[rlayer].gate_proj = rotate_input_weight(@, rQ)]
    /\ rpc' = "rotate_mlp_output"
    /\ rtrace' = Append(rtrace, Entered("rotate_mlp_input", rlayer))
    /\ UNCHANGED <<rprefuse, rorig, rQ, rlayer, rfused, rerror>>

rotate_mlp_output ==
    /\ UNCHANGED notRot
    /\ rpc = "rotate_mlp_output"
    /\ rmodel' = [rmodel EXCEPT
                    !.layers[rlayer].down_proj =
                        apply_exact_had_to_linear(rotate_output_weight(@, rQ),
                                                  -1, FALSE)]
    /\ rpc' = "rotate_ov_proj"
    /\ rtrace' = Append(rtrace, Entered("rotate_mlp_output", rlayer))
    /\ UNCHANGED <<rprefuse, rorig, rQ, rlayer, rfused, rerror>>

\* rotate_ov_proj(layer, model_type, num_heads, head_dim), the last step of
\* a layer: the loop goes on to the next layer or rotate_model returns.
rotate_ov_proj ==
    /\ UNCHANGED notRot
    /\ rpc = "rotate_ov_proj"
    /\ LET head_dim == HiddenSize \div NumHeads IN
       rmodel' = [rmodel EXCEPT
                    !.layers[rlayer].v_proj =
                        apply_exact_had_to_linear(@, head_dim, TRUE),
                    !.layers[rlayer].o_proj =
                        apply_exact_had_to_linear(@, head_dim, FALSE)]
    /\ rlayer' = rlayer + 1
    /\ rpc' = IF rlayer = Len(rmodel.layers) THEN "rotated"
              ELSE "rotate_attention_inputs"
    /\ rtrace' = Append(rtrace, Entered("rotate_ov_proj", rlayer))
    /\ UNCHANGED <<rprefuse, rorig, rQ, rfused, rerror>>

\* register_online_rotation(layer.mlp.down_proj, H) on the rotated model,
\* H the Hadamard matrix of the intermediate size: the buffer holds H.T in
\* the dtype of the module's weight.
register_down_proj_rotation ==
    /\ UNCHANGED notRot
    /\ rpc = "rotated"
    /\ \E l \in 1..Len(rmodel.layers) :
         /\ ~rmodel.layers[l].hasQ
         /\ rmodel' = [rmodel EXCEPT
                         !.layers[l].hasQ = TRUE,
                         !.layers[l].Q =
                             to_dtype(Transpose(HadamardMatrix(IntermediateSize)))]
    /\ UNCHANGED <<rpc, rprefuse, rorig, rQ, rlayer, rfused, rtrace, rerror>>

\* The weights a step assigns, one after the other
StepWrites(step) ==
    CASE step = "rotate_embeddings" -> 1
      [] step = "rotate_head" -> 1
      [] step = "cleanup_memory" -> 0
      [] step = "rotate_attention_inputs" -> 3
      [] step = "rotate_attention_output" -> 1
      [] step = "rotate_mlp_input" -> 2
      [] step = "rotate_mlp_output" -> 2
      [] step = "rotate_ov_proj" -> 2

\* The model after the first n assignments of a step on layer l
after_writes(model, step, l, Q, n) ==
    CASE step = "rotate_embeddings" ->
           IF n < 1 THEN model
           ELSE [model EXCEPT !.embed_tokens = rotate_input_weight(@, Q)]
      [] step = "rotate_head" ->
           IF n < 1 THEN model
           ELSE WithHeadWeight(model, rotate_input_weight(HeadWeight(model), Q))
      [] step = "cleanup_memory" -> model
      [] step = "rotate_attention_inputs" ->
           [model EXCEPT
              !.layers[l].q_proj = IF n < 1 THEN @ ELSE rotate_input_weight(@, Q),
              !.layers[l].k_proj = IF n < 2 THEN @ ELSE rotate_input_weight(@, Q),
              !.layers[l].v_proj = IF n < 3 THEN @ ELSE rotate_input_weight(@, Q)]
      [] step = "rotate_attention_output" ->
           [model EXCEPT
              !.layers[l].o_proj = IF n < 1 THEN @ ELSE rotate_output_weight(@, Q)]
      [] step = "rotate_mlp_input" ->
           [model EXCEPT
              !.layers[l].up_proj = IF n < 1 THEN @ ELSE rotate_input_weight(@, Q),
              !.layers[l].gate_proj = IF n < 2 THEN @ ELSE rotate_input_weight(@, Q)]
      [] step = "rotate_mlp_output" ->
           [model EXCEPT
              !.layers[l].down_proj =
                  IF n < 1 THEN @
                  ELSE IF n < 2 THEN rotate_output_weight(@, Q)
                  ELSE apply_exact_had_to_linear(rotate_output_weight(@, Q),
                                                 -1, FALSE)]
      [] step = "rotate_ov_proj" ->
           [model EXCEPT
              !.layers[l].v_proj =
                  IF n < 1 THEN @
                  ELSE apply_exact_had_to_linear(@, HiddenSize \div NumHeads, TRUE),
              !.layers[l].o_proj =
                  IF n < 2 THEN @
                  ELSE apply_exact_had_to_linear(@, HiddenSize \div NumHeads, FALSE)]

\* rotate_model with a handler that puts the weights back
restored_on_error(model, before) == before

\* rotate_model has no handler: the model stays as the failing step left it.
left_on_error(model, before) == model

\* The step rotate_model is at raises (the device runs out of memory, a
\* shape or an assertion fails) before the first or between two of its
\* assignments; the error leaves rotate_model.
rotate_step_raises ==
    /\ UNCHANGED notRot
    /\ rpc \in RotateSteps
    /\ LET l == IF rpc \in LayerSteps THEN rlayer ELSE 0 IN
       \E done \in 0..(IF StepWrites(rpc) = 0 THEN 0 ELSE StepWrites(rpc) - 1) :
         /\ rmodel' = left_on_error(after_writes(rmodel, rpc, l, rQ, done),
                                    rorig)
         /\ rerror' = [step |-> rpc, layer |-> l, done |-> done]
         /\ rtrace' = Append(rtrace, Entered(rpc, l))
    /\ rpc' = "raised"
    /\ UNCHANGED <<rprefuse, rorig, rQ, rlayer, rfused>>

NextRot ==
    \/ get_family_model
    \/ fuse_layer_norms
    \/ rotate_model
    \/ rotate_embeddings
    \/ rotate_head
    \/ cleanup_memory
    \/ rotate_attention_inputs
    \/ rotate_attention_output
    \/ rotate_mlp_input
    \/ rotate_mlp_output
    \/ rotate_ov_proj
    \/ register_down_proj_rotation
    \/ rotate_step_raises

----------------------------------------------------------------------------
(* get_layer_io_save_path                                                  *)

\* Bound of the path model.
MaxLayerIdx == 10     \* args.layer_idx is 0..MaxLayerIdx or one of LargeIdx

\* Layer indices around the widths two, three and four
LargeIdx == {99, 100, 999, 1000}

out_dir == <<"o", "u", "t">>
tmp_run == <<"/", "t", "m", "p", "/", "r", "u", "n">>
trailing == <<"o", "u", "t", "/">>
nested == <<"r", "u", "n", "s", "/", "a">>
layer_io == <<"l", "a", "y", "e", "r", "_", "i", "o">>
dot_pt == <<".", "p", "t">>

\* Values of args.save_path: relative, absolute, ending in a separator, empty
SavePaths == {out_dir, tmp_run, trailing, nested, <<>>}

\* Fields of args that get_layer_io_save_path does not read
OtherArgs == {"w4a4", "w16a16"}

\* os.path.join(a, b) on a POSIX system: b alone if it is absolute, else a
\* and b with one separator between them unless a is empty or ends in one
path_join(a, b) ==
    IF b # <<>> /\ b[1] = "/" THEN b
    ELSE IF a = <<>> \/ a[Len(a)] = "/" THEN a \o b
    ELSE a \o <<"/">> \o b

RECURSIVE Zeros(_)
Zeros(n) == IF n <= 0 THEN <<>> ELSE <<"0">> \o Zeros(n - 1)

\* f'{n}' for n >= 0: no padding
format_d(n) == DecStr(n)

\* f'{n:03d}' for n >= 0: the decimal digits, filled with zeros on the left
\* up to the width 3
format_03d(n) == Zeros(3 - Len(DecStr(n))) \o DecStr(n)

NoPathArgs == [save_path |-> <<>>, layer_idx |-> 0, quant |-> "w16a16"]

InitPath ==
    /\ pathCalled = FALSE
    /\ pathArgs = NoPathArgs
    /\ pathResult = <<>>

get_layer_io_save_path ==
    /\ UNCHANGED notPath
    /\ \E save_path \in SavePaths, layer_idx \in (0..MaxLayerIdx) \cup LargeIdx,
          quant \in OtherArgs :
         /\ pathArgs' = [save_path |-> save_path, layer_idx |-> layer_idx,
                         quant |-> quant]
         /\ pathResult' = path_join(path_join(save_path, layer_io),
                                    format_03d(layer_idx) \o dot_pt)
    /\ pathCalled' = TRUE

NextPath ==
    \/ get_layer_io_save_path

----------------------------------------------------------------------------
(* The specifications: one part runs, the others stay parked.              *)

LoadStart ==
    /\ InitLoad
    /\ InitOrth /\ InitInstr /\ InitQK /\ InitCap
    /\ InitRepl /\ InitRot /\ InitPath
OrthStart ==
    /\ InitOrth
    /\ InitLoad /\ InitInstr /\ InitQK /\ InitCap
    /\ InitRepl /\ InitRot /\ InitPath
InstrStart ==
    /\ InitInstr
    /\ InitLoad /\ InitOrth /\ InitQK /\ InitCap
    /\ InitRepl /\ InitRot /\ InitPath
QKStart ==
    /\ InitQK
    /\ InitLoad /\ InitOrth /\ InitInstr /\ InitCap
    /\ InitRepl /\ InitRot /\ InitPath
CapStart ==
    /\ InitCap
    /\ InitLoad /\ InitOrth /\ InitInstr /\ InitQK
    /\ InitRepl /\ InitRot /\ InitPath
ReplStart ==
    /\ InitRepl
    /\ InitLoad /\ InitOrth /\ InitInstr /\ InitQK
    /\ InitCap /\ InitRot /\ InitPath
RotStart ==
    /\ InitRot
    /\ InitLoad /\ InitOrth /\ InitInstr /\ InitQK
    /\ InitCap /\ InitRepl /\ InitPath
PathStart ==
    /\ InitPath
    /\ InitLoad /\ InitOrth /\ InitInstr /\ InitQK
    /\ InitCap /\ InitRepl /\ InitRot

SpecLoad == LoadStart /\ [][NextLoad]_vars
SpecOrth == OrthStart /\ [][NextOrth]_vars
SpecInstr == InstrStart /\ [][NextInstr]_vars
SpecQK == QKStart /\ [][NextQK]_vars
SpecCap == CapStart /\ [][NextCap]_vars
SpecRepl == ReplStart /\ [][NextRepl]_vars
SpecRot == RotStart /\ [][NextRot]_vars
SpecPath == PathStart /\ [][NextPath]_vars

----------------------------------------------------------------------------
(* C9 *)

HasWord(name, w) == Contains(Lower(name), w)

\* C9: get_model fails with UnsupportedModel exactly when the lower-cased
\* name contains none of llama, mistral, qwen; otherwise exactly one loader
\* runs, the first match in the order llama, mistral, qwen, and a returned
\* model has seqlen 2048; a call that fails so enters no loader and
\* disables no initializer.
C9_GetModelDispatch ==
    (lpc = "idle" /\ lcalls > 0) =>
        /\ (lresult.kind = "UnsupportedModel") <=>
              (~HasWord(lname, llama) /\ ~HasWord(lname, mistral)
                  /\ ~HasWord(lname, qwen))
        /\ HasWord(lname, llama) => loaderCalls = <<"llama">>
        /\ (~HasWord(lname, llama) /\ HasWord(lname, mistral))
              => loaderCalls = <<"mistral">>
        /\ (~HasWord(lname, llama) /\ ~HasWord(lname, mistral)
              /\ HasWord(lname, qwen)) => loaderCalls = <<"qwen">>
        /\ lresult.kind = "model" =>
              /\ lresult.model.seqlen = 2048
              /\ lresult.model.family = loaderCalls[1]
        /\ lresult.kind = "UnsupportedModel" =>
              /\ loaderCalls = <<>>
              /\ initDisabled = initAtCall

\* A second call with an unsupported name, made after a first call loaded a
\* model whose upper-case name matches two families.
C9_Witness ==
    /\ lpc = "idle"
    /\ lcalls = 2
    /\ lresult.kind = "UnsupportedModel"
    /\ initDisabled = InitRoutines

----------------------------------------------------------------------------
(* C10 *)

ValidModes == {"random", "hadamard", "householder", "hadamard_householder",
               "orthogonal_procrustes"}

\* C10: get_orthogonal_matrix returns only for a valid configuration: a
\* mode outside the five known ones raises InvalidConfiguration whatever
\* the size, householder without an `indices` list raises MissingData,
\* orthogonal_procrustes without `indices` raises MissingData, and with
\* `indices` supplied orthogonal_procrustes returns the supplied object
\* unchanged.
C10_OrthogonalMatrixErrors ==
    (opc = "idle" /\ oresult.kind # "none") =>
        /\ oresult.kind = "returned" =>
              /\ oargs.mode \in ValidModes
              /\ oargs.mode = "householder" => oargs.indices.tag = "list"
              /\ oargs.mode = "orthogonal_procrustes" => oargs.indices.tag # "None"
        /\ oargs.mode \notin ValidModes => oresult.kind = "InvalidConfiguration"
        /\ (oargs.mode = "householder" /\ oargs.indices.tag # "list")
              => oresult.kind = "MissingData"
        /\ (oargs.mode = "orthogonal_procrustes" /\ oargs.indices.tag = "None")
              => oresult.kind = "MissingData"
        /\ (oargs.mode = "orthogonal_procrustes" /\ oargs.indices.tag # "None")
              => oresult = [kind |-> "returned", value |-> oargs.indices]

\* householder was called with no `indices` at size 3 and raised.
C10_Witness ==
    /\ opc = "idle"
    /\ oargs.mode = "householder"
    /\ oargs.size = 3
    /\ oargs.indices.tag = "None"
    /\ oresult.kind = "MissingData"

----------------------------------------------------------------------------
(* C5 *)

OnlineHooks(m) ==
    Cardinality({i \in 1..Len(preHooks[m]) : preHooks[m][i] = "online_rotate"})

\* C5: a register_online_rotation call on a module that already has the
\* buffer Q fails with AlreadyConfigured and changes nothing: whatever calls
\* were made, a registered module holds the buffer stored by its first
\* call (the transpose of that call's Q) and exactly one online_rotate
\* pre-forward callback, so its forward receives its input times that Q.
C5_RegisterOnce ==
    /\ (icall.op = "register_online_rotation" /\ icall.configured)
          => icall.outcome = "AlreadyConfigured"
    /\ \A m \in Modules :
          /\ mQ[m].has <=> firstQ[m] # <<>>
          /\ mQ[m].has =>
                /\ mQ[m].val = MT(firstQ[m])
                /\ OnlineHooks(m) = 1
                /\ rotHandle[m] = 1
          /\ ~mQ[m].has => OnlineHooks(m) = 0
    /\ seen.module \in Modules =>
          seen.received = IF seen.registered
                          THEN MMul(<<seen.given>>, firstQ[seen.module])[1]
                          ELSE seen.given

\* Module 1 was registered with one Q, then a second call with another Q
\* failed.
C5_Witness ==
    /\ icall.op = "register_online_rotation"
    /\ icall.module = 1
    /\ icall.outcome = "AlreadyConfigured"
    /\ icalls = 2
    /\ firstQ[1] = <<<<0, 1>>, <<-1, 0>>>>
    /\ mQ[1].val = <<<<0, -1>>, <<1, 0>>>>

----------------------------------------------------------------------------
(* C6 *)

WrappersFor(m, fn) ==
    Cardinality({i \in 1..Len(fwdWrappers[m]) :
                    fwdWrappers[m][i].function_name = fn})

\* C6 as stated: at most one wrapper per module, and every call on a module
\* that already has one fails with AlreadyConfigured.
C6_OncePerModule ==
    /\ \A m \in Modules : Len(fwdWrappers[m]) <= 1
    /\ (icall.op = "add_qk_rotation_wrapper" /\ icall.configured)
          => icall.outcome = "AlreadyConfigured"

\* C6, amended: a wrapper is installed at most once per module and function
\* name: a module's forward carries at most one wrapper for each function
\* name, one attribute is recorded per installed wrapper, and a call naming
\* a function that module already has a wrapper for fails with
\* AlreadyConfigured.
C6_OncePerFunction ==
    /\ \A m \in Modules :
          /\ \A fn \in FunctionNames :
                /\ WrappersFor(m, fn) <= 1
                /\ WrappersFor(m, fn) = 1 <=> fn \in wrapAttrs[m]
          /\ Len(fwdWrappers[m]) = Cardinality(wrapAttrs[m])
    /\ (icall.op = "add_qk_rotation_wrapper" /\ icall.same)
          => icall.outcome = "AlreadyConfigured"
    /\ (icall.op = "add_qk_rotation_wrapper" /\ icall.outcome = "ok")
          => WrappersFor(icall.module, icall.function_name) = 1

\* Module 1 has a wrapper for both function names, the second installed by
\* a call made when the first was there.
C6_Witness ==
    /\ Len(fwdWrappers[1]) = 2
    /\ icall.op = "add_qk_rotation_wrapper"
    /\ icall.configured
    /\ ~icall.same
    /\ icall.outcome = "ok"

\* Module 1 has a wrapper for apply_rotary_pos_emb and a second call naming
\* that function was refused.
C6_WitnessRefused ==
    /\ Len(fwdWrappers[1]) = 1
    /\ icall.op = "add_qk_rotation_wrapper"
    /\ icall.module = 1
    /\ icall.function_name = "apply_rotary_pos_emb"
    /\ icall.same
    /\ icall.outcome = "AlreadyConfigured"

----------------------------------------------------------------------------
(* C7 *)

ForwardEnded == qpc = "ready" /\ qcalls > 0

NoQuantizerCall == quantCalls.find_params = 0 /\ quantCalls.quantize = 0

\* C7 as stated: with k_bits = 16 the returned key equals the key the
\* wrapped function returned, and find_params and quantize are never
\* called.
C7_KeyUntouched ==
    (ForwardEnded /\ qkret.ok /\ qwrap.k_bits = 16) =>
        /\ qkret.k = kin
        /\ NoQuantizerCall

\* C7, amended: with k_bits = 16 find_params and quantize are never called
\* and the returned key is the wrapped function's key after the Hadamard
\* rotation of its last dimension; it is the wrapped function's key itself
\* only when disable_qk_rotation is set.
C7_KeyOnlyRotated ==
    (ForwardEnded /\ qkret.ok /\ qwrap.k_bits = 16) =>
        /\ NoQuantizerCall
        /\ \A i \in 1..Len(qkret.k.data) : qkret.k.data[i].grid = <<>>
        /\ qwrap.disable_qk_rotation => qkret.k = kin
        /\ ~qwrap.disable_qk_rotation =>
              /\ qkret.k = hadamard_transform(kin)
              /\ hadamard_transform(qkret.k) = kin

\* A forward with k_bits = 16 and the rotation on returned a key that is
\* not the wrapped function's key.
C7_Witness ==
    /\ ForwardEnded
    /\ qkret.ok
    /\ qwrap.k_bits = 16
    /\ ~qwrap.disable_qk_rotation
    /\ qkret.k # kin
    /\ quantCalls = [find_params |-> 0, quantize |-> 0, free |-> 1]

----------------------------------------------------------------------------
(* C8 *)

\* The key the quantization paths start from.
RotatedKey == IF qwrap.disable_qk_rotation THEN kin ELSE hadamard_transform(kin)

\* The returned key has the shape of the wrapped function's key and every
\* element is the quantized element of the same place.
KeptInPlace ==
    /\ qkret.ok
    /\ qkret.k.shape = kin.shape
    /\ Len(qkret.k.data) = Numel(kin.shape)
    /\ \A i \in 1..Len(qkret.k.data) :
          /\ qkret.k.data[i].n = RotatedKey.data[i].n
          /\ qkret.k.data[i].grid # <<>>

\* C8: with k_bits < 16, for every key of shape (batch, heads, sequence,
\* head_dim) the wrapped function returns, forward succeeds and returns a
\* key of that shape, on the token-wise path (k_groupsize = -1) and on the
\* head-wise path (k_groupsize = head_dim), every element staying at the
\* place of the element it was quantized from.
C8_ShapeKept ==
    (ForwardEnded /\ qwrap.k_bits < 16 /\ kin.shape[4] = qwrap.head_dim)
        => KeptInPlace

\* What the code does keep: the same when the key has as many heads as the
\* configuration has attention heads.
C8_ShapeKeptWhenHeadsMatch ==
    (ForwardEnded /\ qwrap.k_bits < 16 /\ kin.shape[4] = qwrap.head_dim
       /\ (qwrap.k_groupsize = -1 =>
              kin.shape[2] * qwrap.head_dim = qwrap.hidden_size))
        => KeptInPlace

----------------------------------------------------------------------------
(* C4 *)

\* C4: whatever capture_layer_io calls were made on the layer before, a
\* call with a batch of N sequences that returns gives input keys exactly
\* {k_proj, o_proj, gate_proj, down_proj} and output keys exactly {v_proj},
\* every returned tensor has first dimension N, made of one entry per
\* replayed sequence in replay order, and no hook the call attached is
\* still attached; the hooks that are still attached belong to calls that
\* raised.
C4_CaptureShape ==
    (cpc = "idle" /\ cret.kind = "returned") =>
        /\ DOMAIN cret.input = {"k_proj", "o_proj", "gate_proj", "down_proj"}
        /\ DOMAIN cret.output = {"v_proj"}
        /\ \A n \in DOMAIN cret.input :
              /\ cret.input[n].dim0 = cN
              /\ cret.input[n].seqs = [i \in 1..cN |-> i - 1]
        /\ \A n \in DOMAIN cret.output :
              /\ cret.output[n].dim0 = cN
              /\ cret.output[n].seqs = [i \in 1..cN |-> i - 1]
        /\ \A h \in chooks : h.call # ccalls /\ h.call \in cfailed

\* A second call, with two sequences, returned while the hooks of a first
\* call that raised are still attached.
C4_Witness ==
    /\ cpc = "idle"
    /\ cret.kind = "returned"
    /\ ccalls = 2
    /\ cN = 2
    /\ cfailed = {1}
    /\ chooks # {}

----------------------------------------------------------------------------
(* C3: replace_modules                                                     *)

\* The modules a module is nested in, root left out
RECURSIVE Enclosing(_, _)
Enclosing(p, i) ==
    IF p[i] = 0 THEN {} ELSE {p[i]} \cup Enclosing(p, p[i])

\* The module is nested in no instance of type_to_replace.
Outermost(i) == \A a \in Enclosing(tparent, i) : ~tmatch[a]

\* An instance of type_to_replace nested in no other instance
OutermostMatch(i) == tmatch[i] /\ Outermost(i)

FactoryCallsFor(i) == {k \in 1..Len(fcalls) : fcalls[k].module = i}

\* int(name) raises for some module the search replaces.
NameNotInteger ==
    /\ replace_layers
    /\ \E i \in Nodes : OutermostMatch(i) /\ tname[i] = IdentName(i)

\* What the hierarchy holds for module i once the module is replaced
Installed(i) ==
    IF factory_none THEN Original(i)
    ELSE Replacement(i, IF replace_layers THEN 7 + i ELSE -1)

ReplaceEnded == tpc \in {"done", "ValueError"}

\* C3 as stated: over any hierarchy, when replace_modules ends the factory
\* has been called exactly once for every instance of type_to_replace that is
\* nested in no other instance and its result stands at the child's name.
C3_EveryMatchReplaced ==
    ReplaceEnded =>
        \A i \in Nodes :
            OutermostMatch(i) =>
                /\ Cardinality(FactoryCallsFor(i)) = 1
                /\ tslot[i].kind = "replacement"

\* C3 amended: replace_modules raises ValueError exactly when replace_layers
\* is set and an instance nested in no other instance has a name that is no
\* integer. When it returns, the factory has been called exactly once for
\* every such instance (with int(name) when replace_layers is set) and for no
\* other module, its result stands at the child's name unless it is None,
\* every other attribute holds its original module, and the search has taken
\* exactly the modules nested in no instance. At every moment the search has
\* taken no module nested in an instance and called the factory at most once
\* per module.
C3_OutermostReplaced ==
    /\ tvisited \subseteq {i \in Nodes : Outermost(i)}
    /\ \A i \in Nodes : Cardinality(FactoryCallsFor(i)) <= 1
    /\ tpc = "ValueError" => NameNotInteger
    /\ tpc = "done" =>
         /\ ~NameNotInteger
         /\ tvisited = {i \in Nodes : Outermost(i)}
         /\ \A i \in Nodes :
              IF OutermostMatch(i)
              THEN /\ \E k \in FactoryCallsFor(i) :
                        fcalls[k].index = IF replace_layers THEN 7 + i ELSE -1
                   /\ Cardinality(FactoryCallsFor(i)) = 1
                   /\ tslot[i] = Installed(i)
              ELSE /\ FactoryCallsFor(i) = {}
                   /\ tslot[i] = Original(i)

\* A hierarchy three levels deep was searched with replace_layers set: an
\* instance on the second level was replaced by the factory's module, and an
\* instance nested in it was left alone.
C3_Witness ==
    /\ tpc = "done"
    /\ replace_layers
    /\ \E i, j \in Nodes :
         /\ tparent[i] # 0
         /\ OutermostMatch(i)
         /\ tparent[j] = i
         /\ tmatch[j]
         /\ tslot[i] = Replacement(i, 7 + i)
         /\ tslot[j] = Original(j)
         /\ j \notin tvisited

----------------------------------------------------------------------------
(* C2: fuse_layer_norms                                                    *)

\* Every norm of the model has the all-ones scale vector.
UnitScales(model) ==
    /\ model.norm = Ones
    /\ \A l \in 1..Len(model.layers) :
         /\ model.layers[l].input_layernorm = Ones
         /\ model.layers[l].post_attention_layernorm = Ones

\* W with column j multiplied by g[j]
ColumnScaled(W, g) ==
    DM(W.e, [i \in 1..Len(W.m) |-> [j \in 1..Len(W.m[i]) |-> W.m[i][j] * g[j]]])

\* Inputs of a norm: the unit vectors, two vectors of integers and one of
\* halves
SampleInputs ==
    { DM(0, <<[j \in 1..HiddenSize |-> IF j = a THEN 1 ELSE 0]>>) :
        a \in 1..HiddenSize }
    \cup { DM(0, <<[j \in 1..HiddenSize |-> j]>>),
           DM(0, <<[j \in 1..HiddenSize |-> (j % 3) - 1]>>),
           DM(1, <<[j \in 1..HiddenSize |-> 2 * j - 5]>>) }

\* The new weight is the old one with its columns scaled by g, and on the
\* unit-scale norm output it gives what the old one gave on the output of
\* the norm scaled by g.
FusedInto(new, old, g) ==
    /\ new = ColumnScaled(old, g)
    /\ \A x \in SampleInputs :
         linear(RMSNorm(x, Ones), new) = linear(RMSNorm(x, g), old)

\* fuse_layer_norms has just run on the loaded model.
JustFused == rpc = "loaded" /\ rfused

\* C2: after fuse_layer_norms every norm scale of the model is all-ones, and
\* q_proj, k_proj, v_proj (pre-attention norm), up_proj, gate_proj
\* (post-attention norm) and the head (final norm) hold their old weight with
\* column j multiplied by the old scale g[j], so that each gives on the
\* unit-scale norm output what it gave before on the scaled norm output.
C2_FusedNorms ==
    JustFused =>
        /\ UnitScales(rmodel)
        /\ \A l \in 1..Len(rmodel.layers) :
             LET new == rmodel.layers[l]
                 old == rprefuse.layers[l]
             IN  /\ FusedInto(new.q_proj, old.q_proj, old.input_layernorm)
                 /\ FusedInto(new.k_proj, old.k_proj, old.input_layernorm)
                 /\ FusedInto(new.v_proj, old.v_proj, old.input_layernorm)
                 /\ FusedInto(new.up_proj, old.up_proj,
                              old.post_attention_layernorm)
                 /\ FusedInto(new.gate_proj, old.gate_proj,
                              old.post_attention_layernorm)
        /\ FusedInto(HeadWeight(rmodel), HeadWeight(rprefuse), rprefuse.norm)

\* fuse_layer_norms has run on a model whose norm scales were not all-ones:
\* the scales are all-ones now and the weights of q_proj and of the head
\* have changed.
C2_Witness ==
    /\ JustFused
    /\ ~UnitScales(rprefuse)
    /\ UnitScales(rmodel)
    /\ rmodel.layers[1].q_proj # rprefuse.layers[1].q_proj
    /\ HeadWeight(rmodel) # HeadWeight(rprefuse)

----------------------------------------------------------------------------
(* C1: rotate_model leaves the logits unchanged                            *)

Tokens == 1..VocabSize

\* The model gives the logits the model handed to rotate_model gave.
SameLogits == \A token \in Tokens : Logits(rorig, token) = Logits(rmodel, token)

NoneOnline(model) == \A l \in 1..Len(model.layers) : ~model.layers[l].hasQ

AllOnline(model) == \A l \in 1..Len(model.layers) : model.layers[l].hasQ

\* C1 as stated: for every supported model and every orthogonal Q, the
\* model as rotate_model leaves it gives the logits of the original model.
C1_RotateModelAlone ==
    (rpc = "rotated" /\ NoneOnline(rmodel)) => SameLogits

\* C1 amended: for a model whose norm scales are all-ones and whose head does
\* not share its weight with the embedding, and every orthogonal Q, the model
\* rotate_model leaves gives the logits of the original model once the input
\* of every down_proj is rotated online by the Hadamard matrix of the
\* intermediate size.
C1_RotationInvariant ==
    (/\ rpc = "rotated"
     /\ UnitScales(rorig)
     /\ ~rorig.shared
     /\ AllOnline(rmodel)) => SameLogits

\* A model fused from scales that were not all-ones, with a head of its own,
\* was rotated by a Q that is neither the identity nor symmetric, every
\* down_proj has its online rotation, and the logits, which tell the tokens
\* apart, are those of the model before rotation.
C1_Witness ==
    /\ rpc = "rotated"
    /\ rfused
    /\ ~UnitScales(rprefuse)
    /\ UnitScales(rorig)
    /\ ~rorig.shared
    /\ AllOnline(rmodel)
    /\ rQ # IdentityMatrix(HiddenSize)
    /\ rQ # Transpose(rQ)
    /\ rmodel.layers # rorig.layers
    /\ SameLogits
    /\ Logits(rmodel, 1) # Logits(rmodel, 2)

----------------------------------------------------------------------------
(* C11: get_layer_io_save_path                                             *)

\* The components of a path: what stands between its separators
RECURSIVE Components(_)
Components(path) ==
    IF path = <<>> THEN <<>>
    ELSE IF path[1] = "/" THEN Components(Tail(path))
    ELSE LET stops == {i \in 1..Len(path) : path[i] = "/"}
             end == IF stops = {} THEN Len(path) + 1 ELSE Min(stops)
         IN  <<SubSeq(path, 1, end - 1)>>
               \o Components(SubSeq(path, end, Len(path)))

IsAbsolute(path) == path # <<>> /\ path[1] = "/"

\* The components before the last are those of save_path, then layer_io,
\* and the path is absolute exactly if save_path is.
UnderSavePath ==
    LET comps == Components(pathResult)
        n == Len(comps)
    IN  /\ n = Len(Components(pathArgs.save_path)) + 2
        /\ SubSeq(comps, 1, n - 2) = Components(pathArgs.save_path)
        /\ comps[n - 1] = layer_io
        /\ IsAbsolute(pathResult) <=> IsAbsolute(pathArgs.save_path)

\* The last component of the returned path
FileName == Components(pathResult)[Len(Components(pathResult))]

\* name is layer_idx in decimal digits, with zeros in front up to three
\* digits and none beyond.
PaddedIndex(name) ==
    /\ ParseInt(name) = pathArgs.layer_idx
    /\ Len(name) >= 3
    /\ Len(name) > 3 => name[1] # "0"

\* C11 as stated: the returned path is save_path, then layer_io, then a last
\* component that is the layer index in 3 zero-padded decimal digits.
C11_ThreeDigitName ==
    pathCalled =>
        /\ UnderSavePath
        /\ Len(FileName) = 3
        /\ ParseInt(FileName) = pathArgs.layer_idx

\* C11 amended: the returned path is save_path, then layer_io, then a last
\* component that is the layer index in decimal digits, zero-padded to at
\* least 3 digits (more for an index of 1000 or above), followed by ".pt";
\* it is fixed by save_path and layer_idx.
C11_SavePath ==
    pathCalled =>
        /\ UnderSavePath
        /\ Len(FileName) > Len(dot_pt)
        /\ SubSeq(FileName, Len(FileName) - Len(dot_pt) + 1, Len(FileName))
             = dot_pt
        /\ PaddedIndex(SubSeq(FileName, 1, Len(FileName) - Len(dot_pt)))

\* The path for layer 7 under /tmp/run was asked for and is
\* /tmp/run/layer_io/007.pt.
C11_Witness ==
    /\ pathCalled
    /\ pathArgs.save_path = tmp_run
    /\ pathArgs.layer_idx = 7
    /\ pathResult = tmp_run \o <<"/">> \o layer_io
                      \o <<"/", "0", "0", "7", ".", "p", "t">>

----------------------------------------------------------------------------
(* C12: the order of rotate_model's steps, and what a failing step leaves  *)

LayerOrder(l) ==
    << Entered("rotate_attention_inputs", l),
       Entered("rotate_attention_output", l),
       Entered("rotate_mlp_input", l),
       Entered("rotate_mlp_output", l),
       Entered("rotate_ov_proj", l) >>

RECURSIVE LayersOrder(_, _)
LayersOrder(l, n) ==
    IF l > n THEN <<>> ELSE LayerOrder(l) \o LayersOrder(l + 1, n)

\* Embeddings, head, cleanup, then layer by layer the five layer steps
FixedOrder ==
    << Entered("rotate_embeddings", 0), Entered("rotate_head", 0),
       Entered("cleanup_memory", 0) >> \o LayersOrder(1, NumLayers)

IsPrefix(a, b) == Len(a) <= Len(b) /\ SubSeq(b, 1, Len(a)) = a

\* The model after the given steps, each run to its end
RECURSIVE Replayed(_, _, _)
Replayed(model, steps, Q) ==
    IF steps = <<>> THEN model
    ELSE Replayed(after_writes(model, Head(steps).step, Head(steps).layer, Q,
                               StepWrites(Head(steps).step)),
                  Tail(steps), Q)

\* A layer with all five layer steps done
FullyRotated(layer, Q) ==
    LET HeadsH == BlockDiag(HadamardMatrix(HeadDim), NumHeads)
    IN  [layer EXCEPT
           !.q_proj = matmul(@, Q),
           !.k_proj = matmul(@, Q),
           !.v_proj = matmul(HeadsH, matmul(@, Q)),
           !.o_proj = matmul(matmul(Transpose(Q), @), HeadsH),
           !.up_proj = matmul(@, Q),
           !.gate_proj = matmul(@, Q),
           !.down_proj = matmul(matmul(Transpose(Q), @),
                                HadamardMatrix(IntermediateSize))]

\* What a step that raised leaves: the error names the last step entered,
\* the model is the original with every earlier step done in full and the
\* failing step done as far as it got, the layers before the failing one are
\* fully rotated and the layers after it are as they were.
LeftAsFailed ==
    /\ rtrace # <<>>
    /\ Entered(rerror.step, rerror.layer) = rtrace[Len(rtrace)]
    /\ rmodel = after_writes(Replayed(rorig, SubSeq(rtrace, 1, Len(rtrace) - 1),
                                      rQ),
                             rerror.step, rerror.layer, rQ, rerror.done)
    /\ \A l \in 1..Len(rmodel.layers) :
         /\ (rerror.layer > 0 /\ l < rerror.layer)
              => rmodel.layers[l] = FullyRotated(rorig.layers[l], rQ)
         /\ l > rerror.layer => rmodel.layers[l] = rorig.layers[l]

\* C12: rotate_model enters its steps in the fixed order (embeddings, head,
\* memory cleanup, then for each layer in index order attention inputs,
\* attention output, MLP input, MLP output, OV projection) and has entered
\* all of them when it returns; when a step raises, what the earlier steps
\* wrote stays, the layers before the failing one are fully rotated, the
\* layers after it are untouched, and no step runs afterwards.
C12_FixedOrderNoRollback ==
    /\ [](/\ IsPrefix(rtrace, FixedOrder)
          /\ rpc = "rotated" => rtrace = FixedOrder
          /\ rpc = "raised" => LeftAsFailed
          /\ rpc # "raised" => rerror = NoError)
    /\ [][rpc # "raised"]_rotVars

\* rotate_mlp_output raised on layer 1 after its first assignment, under a Q
\* that is not the identity: the embedding and layer 1's q_proj stay
\* rotated, down_proj holds Q.T W without the Hadamard, and layer 2 is
\* untouched.
C12_Witness ==
    /\ rpc = "raised"
    /\ rerror = [step |-> "rotate_mlp_output", layer |-> 1, done |-> 1]
    /\ rQ # IdentityMatrix(HiddenSize)
    /\ rmodel.embed_tokens = matmul(rorig.embed_tokens, rQ)
    /\ rmodel.embed_tokens # rorig.embed_tokens
    /\ rmodel.layers[1].q_proj # rorig.layers[1].q_proj
    /\ rmodel.layers[1].down_proj
         = matmul(Transpose(rQ), rorig.layers[1].down_proj)
    /\ rmodel.layers[2] = rorig.layers[2]

----------------------------------------------------------------------------
(* C13: the embedding and the head after rotate_model                      *)

\* Embedding and head each hold the weight they had when rotate_model was
\* entered, times Q once (computed in double, stored in half).
RotatedOnce ==
    /\ rmodel.embed_tokens = to_dtype(matmul(rorig.embed_tokens, rQ))
    /\ HeadWeight(rmodel) = to_dtype(matmul(HeadWeight(rorig), rQ))

\* The head has a parameter of its own.
SeparateStorage == ~rmodel.shared

\* C13: for a model returned by get_llama, get_mistral or get_qwen, tied or
\* not, after rotate_model(model, Q) the embedding is E_old Q and the head
\* is H_old Q, each multiplied by Q exactly once, the two never sharing
\* storage while the rotation runs.
C13_EachRotatedOnce ==
    /\ rpc \in RotateSteps => SeparateStorage
    /\ rpc = "rotated" => RotatedOnce

\* What holds in the code: a model whose head has its own parameter (every
\* untied model, and every model from get_qwen) is rotated once on each
\* side; a tied model from get_llama or get_mistral keeps one parameter for
\* both, which rotate_embeddings and rotate_head each multiply by Q.
RotatedOncePerParameter ==
    /\ (rpc # "idle" /\ ~rmodel.shared) =>
         (rmodel.family = "qwen" \/ ~rmodel.tie)
    /\ (rpc = "rotated" /\ ~rmodel.shared) => RotatedOnce
    /\ (rpc = "rotated" /\ rmodel.shared) =>
         /\ rmodel.family \in {"llama", "mistral"} /\ rmodel.tie
         /\ rmodel.embed_tokens
              = to_dtype(matmul(to_dtype(matmul(rorig.embed_tokens, rQ)), rQ))
         /\ rQ # IdentityMatrix(HiddenSize) => ~RotatedOnce
====
